---------------------------- MODULE Spec2Model ----------------------------
(***************************************************************************)
(* The per-user JSON document store of bot.py: the atomic write protocol   *)
(* (safe_write_json), the record codec (json.dump / json.load), the schema *)
(* migration (migrate_user_file), the store operations (ensure_user_data,  *)
(* load_user_data, save_user_data) and the handlers that mutate a record.  *)
(*                                                                         *)
(* A file is a sequence of tokens, the text json.dump writes with the      *)
(* white space, commas and colons left out.  A token is a pair of strings  *)
(* <<class, text>>.  A decoded JSON object is a function from its keys to  *)
(* their values, a JSON array is a sequence.                               *)
(***************************************************************************)
EXTENDS Integers, Sequences, FiniteSets, TLC

\* ------------------------------------------------------------------ bounds
\* Requests served in one run; the clock reads the number of the request.
MaxOps == 3
\* Crashes, I/O failures and external damage injected in one run.
MaxFaults == 1
\* Tokens one buffered write of json.dump puts into the temporary file.
ChunkTokens == 20

\* ------------------------------------------------------- program constants
SCHEMA_VERSION == 2

\* The entity keys (user ids) of the model.  User 1 sends every kind of
\* request; user 2 only opens the list of sections.
Keys == {1, 2}
Editors == {1}

\* Python's None, as the value of a key of a dict.
None == "<None>"

\* ------------------------------------------------------------------- codec
TokP(x) == <<"p", x>>
TokK(x) == <<"k", x>>
TokS(x) == <<"s", x>>
TokN(n) == <<"n", ToString(n)>>
TokL(x) == <<"l", x>>

\* The integers a number token of a file can stand for.
Numbers == 0..(SCHEMA_VERSION + 1)

Has(d, k) == k \in DOMAIN d

EmptyDict == <<>>

\* json.dump of a str-or-None value.
DumpStrOrNone(v) == IF v = None THEN TokL("null") ELSE TokS(v)

DumpBool(b) == IF b THEN TokL("true") ELSE TokL("false")

\* json.dump of one Section dict.
DumpSection(s) ==
    <<TokP("{")>>
    \o (IF Has(s, "title") THEN <<TokK("title"), TokS(s["title"])>> ELSE <<>>)
    \o (IF Has(s, "image") THEN <<TokK("image"), DumpStrOrNone(s["image"])>> ELSE <<>>)
    \o (IF Has(s, "text") THEN <<TokK("text"), TokS(s["text"])>> ELSE <<>>)
    \o (IF Has(s, "favorite") THEN <<TokK("favorite"), DumpBool(s["favorite"])>> ELSE <<>>)
    \o (IF Has(s, "updated_at") THEN <<TokK("updated_at"), TokS(s["updated_at"])>> ELSE <<>>)
    \o (IF Has(s, "deleted_at") THEN <<TokK("deleted_at"), TokS(s["deleted_at"])>> ELSE <<>>)
    \o <<TokP("}")>>

RECURSIVE DumpSections(_)
DumpSections(q) ==
    IF q = <<>> THEN <<>> ELSE DumpSection(Head(q)) \o DumpSections(Tail(q))

\* An encoder that writes every list as the empty list.
DumpListEmpty(q) == <<TokP("["), TokP("]")>>

DumpList(q) == <<TokP("[")>> \o DumpSections(q) \o <<TokP("]")>>

DumpSettings(st) ==
    <<TokP("{")>>
    \o (IF Has(st, "theme") THEN <<TokK("theme"), TokS(st["theme"])>> ELSE <<>>)
    \o <<TokP("}")>>

\* json.dump(obj, tf, ensure_ascii=False, indent=2) of a record dict.
Dump(d) ==
    <<TokP("{")>>
    \o (IF Has(d, "schema_version")
        THEN <<TokK("schema_version"), TokN(d["schema_version"])>> ELSE <<>>)
    \o (IF Has(d, "sections") THEN <<TokK("sections")>> \o DumpList(d["sections"]) ELSE <<>>)
    \o (IF Has(d, "trash") THEN <<TokK("trash")>> \o DumpList(d["trash"]) ELSE <<>>)
    \o (IF Has(d, "settings")
        THEN <<TokK("settings")>> \o DumpSettings(d["settings"]) ELSE <<>>)
    \o <<TokP("}")>>

\* The result of a parse: ok, the value, and the index of the next token.
Parsed(v, n) == [ok |-> TRUE, v |-> v, next |-> n]
ParseFail == [ok |-> FALSE, v |-> EmptyDict, next |-> 0]

IsTok(toks, i, t) == i <= Len(toks) /\ toks[i] = t
IsClass(toks, i, c) == i <= Len(toks) /\ toks[i][1] = c

StringKeys == {"title", "text", "updated_at", "deleted_at"}

\* The members of a Section object from token i on, up to its closing brace.
RECURSIVE ParseSectionMembers(_, _, _)
ParseSectionMembers(toks, i, acc) ==
    IF IsTok(toks, i, TokP("}")) THEN Parsed(acc, i + 1)
    ELSE IF ~(IsClass(toks, i, "k") /\ i + 1 <= Len(toks)) THEN ParseFail
    ELSE LET key == toks[i][2]
             val == toks[i + 1]
         IN  IF Has(acc, key) THEN ParseFail
             ELSE IF key \in StringKeys /\ val[1] = "s"
                  THEN ParseSectionMembers(toks, i + 2, acc @@ (key :> val[2]))
             ELSE IF key = "image" /\ val[1] = "s"
                  THEN ParseSectionMembers(toks, i + 2, acc @@ (key :> val[2]))
             ELSE IF key = "image" /\ val = TokL("null")
                  THEN ParseSectionMembers(toks, i + 2, acc @@ (key :> None))
             ELSE IF key = "favorite" /\ val \in {TokL("true"), TokL("false")}
                  THEN ParseSectionMembers(toks, i + 2, acc @@ (key :> (val = TokL("true"))))
             ELSE ParseFail

\* The elements of an array of Sections from token i on, up to its bracket.
RECURSIVE ParseElements(_, _, _)
ParseElements(toks, i, acc) ==
    IF IsTok(toks, i, TokP("]")) THEN Parsed(acc, i + 1)
    ELSE IF ~IsTok(toks, i, TokP("{")) THEN ParseFail
    ELSE LET s == ParseSectionMembers(toks, i + 1, EmptyDict)
         IN  IF s.ok THEN ParseElements(toks, s.next, Append(acc, s.v)) ELSE ParseFail

ParseList(toks, i) ==
    IF IsTok(toks, i, TokP("[")) THEN ParseElements(toks, i + 1, <<>>) ELSE ParseFail

ParseSettings(toks, i) ==
    IF ~IsTok(toks, i, TokP("{")) THEN ParseFail
    ELSE IF IsTok(toks, i + 1, TokP("}")) THEN Parsed(EmptyDict, i + 2)
    ELSE IF IsTok(toks, i + 1, TokK("theme")) /\ IsClass(toks, i + 2, "s")
            /\ IsTok(toks, i + 3, TokP("}"))
         THEN Parsed("theme" :> toks[i + 2][2], i + 4)
    ELSE ParseFail

ParseNumber(tok) ==
    IF tok[1] = "n" /\ \E n \in Numbers : ToString(n) = tok[2]
    THEN Parsed(CHOOSE n \in Numbers : ToString(n) = tok[2], 0)
    ELSE ParseFail

\* The members of a record object from token i on, up to its closing brace.
RECURSIVE ParseMembers(_, _, _)
ParseMembers(toks, i, acc) ==
    IF IsTok(toks, i, TokP("}")) THEN Parsed(acc, i + 1)
    ELSE IF ~(IsClass(toks, i, "k") /\ i + 1 <= Len(toks)) THEN ParseFail
    ELSE LET key == toks[i][2]
         IN  IF Has(acc, key) THEN ParseFail
             ELSE IF key = "schema_version"
                  THEN LET n == ParseNumber(toks[i + 1])
                       IN  IF n.ok THEN ParseMembers(toks, i + 2, acc @@ (key :> n.v))
                           ELSE ParseFail
             ELSE IF key \in {"sections", "trash"}
                  THEN LET q == ParseList(toks, i + 1)
                       IN  IF q.ok THEN ParseMembers(toks, q.next, acc @@ (key :> q.v))
                           ELSE ParseFail
             ELSE IF key = "settings"
                  THEN LET st == ParseSettings(toks, i + 1)
                       IN  IF st.ok THEN ParseMembers(toks, st.next, acc @@ (key :> st.v))
                           ELSE ParseFail
             ELSE ParseFail

\* json.load of a file's whole content: the shape of the value ("dict", "list")
\* and the value, or ok = FALSE where json.load raises.
Load(toks) ==
    IF IsTok(toks, 1, TokP("{"))
    THEN LET r == ParseMembers(toks, 2, EmptyDict)
         IN  IF r.ok /\ r.next = Len(toks) + 1
             THEN [ok |-> TRUE, shape |-> "dict", v |-> r.v]
             ELSE [ok |-> FALSE, shape |-> "none", v |-> EmptyDict]
    ELSE IF IsTok(toks, 1, TokP("["))
    THEN LET q == ParseElements(toks, 2, <<>>)
         IN  IF q.ok /\ q.next = Len(toks) + 1
             THEN [ok |-> TRUE, shape |-> "list", v |-> EmptyDict]
             ELSE [ok |-> FALSE, shape |-> "none", v |-> EmptyDict]
    ELSE [ok |-> FALSE, shape |-> "none", v |-> EmptyDict]


\* ------------------------------------------------------------ dict helpers
DictGet(d, k, dflt) == IF Has(d, k) THEN d[k] ELSE dflt

DictSet(d, k, v) == [x \in (DOMAIN d) \cup {k} |-> IF x = k THEN v ELSE d[x]]

\* dict.setdefault(k, v)
SetDefault(d, k, v) == IF Has(d, k) THEN d ELSE DictSet(d, k, v)

DictPop(d, k) == [x \in (DOMAIN d) \ {k} |-> d[x]]

\* A pop that drops the last element whatever the index.
ListPopLast(q, i) == SubSeq(q, 1, Len(q) - 1)

\* list.pop(i) with i counted from 0: the list that remains.
ListPop(q, i) == SubSeq(q, 1, i) \o SubSeq(q, i + 2, Len(q))

\* 0 <= idx < len(q)
InRange(idx, q) == 0 <= idx /\ idx < Len(q)

\* q[idx] of a Python list: a negative idx counts from the end, and an idx
\* outside -len(q)..len(q)-1 raises IndexError.
Subscriptable(idx, q) == -Len(q) <= idx /\ idx < Len(q)
Position(idx, q) == IF idx < 0 THEN Len(q) + idx + 1 ELSE idx + 1

\* datetime.now(timezone.utc).isoformat() at clock reading t.
Iso(t) == ToString(t)

\* A default record stamped with the version before the current one.
default_user_structure_old ==
    [schema_version |-> SCHEMA_VERSION - 1,
     sections |-> <<>>,
     trash |-> <<>>,
     settings |-> [theme |-> "light"]]

default_user_structure ==
    [schema_version |-> SCHEMA_VERSION,
     sections |-> <<>>,
     trash |-> <<>>,
     settings |-> [theme |-> "light"]]

\* ---------------------------------------------------------------- registry
\* The registry maps str(user.id) to an entry with the keys password,
\* logged_in and settings, each of which an entry may lack.
UserIds == {ToString(k) : k \in Keys}

\* What a user can type as a password.
Passwords == {"pw", "no"}

\* json.dump of one entry of the registry.
DumpEntry(e) ==
    <<TokP("{")>>
    \o (IF Has(e, "password") THEN <<TokK("password"), TokS(e["password"])>> ELSE <<>>)
    \o (IF Has(e, "logged_in")
        THEN <<TokK("logged_in"), DumpBool(e["logged_in"])>> ELSE <<>>)
    \o (IF Has(e, "settings")
        THEN <<TokK("settings")>> \o DumpSettings(e["settings"]) ELSE <<>>)
    \o <<TokP("}")>>

RECURSIVE DumpEntries(_, _)
DumpEntries(users, ks) ==
    IF ks = {} THEN <<>>
    ELSE LET k == CHOOSE x \in ks : \A y \in ks : x <= y
         IN  (IF Has(users, ToString(k))
              THEN <<TokK(ToString(k))>> \o DumpEntry(users[ToString(k)])
              ELSE <<>>)
             \o DumpEntries(users, ks \ {k})

\* json.dump of the registry.
DumpUsers(users) == <<TokP("{")>> \o DumpEntries(users, Keys) \o <<TokP("}")>>

RECURSIVE ParseEntryMembers(_, _, _)
ParseEntryMembers(toks, i, acc) ==
    IF IsTok(toks, i, TokP("}")) THEN Parsed(acc, i + 1)
    ELSE IF IsTok(toks, i, TokK("password")) /\ IsClass(toks, i + 1, "s")
    THEN ParseEntryMembers(toks, i + 2, DictSet(acc, "password", toks[i + 1][2]))
    ELSE IF IsTok(toks, i, TokK("logged_in")) /\ IsClass(toks, i + 1, "l")
            /\ toks[i + 1][2] \in {"true", "false"}
    THEN ParseEntryMembers(toks, i + 2,
                           DictSet(acc, "logged_in", toks[i + 1][2] = "true"))
    ELSE IF IsTok(toks, i, TokK("settings"))
    THEN LET r == ParseSettings(toks, i + 1)
         IN  IF r.ok
             THEN ParseEntryMembers(toks, r.next, DictSet(acc, "settings", r.v))
             ELSE ParseFail
    ELSE ParseFail

RECURSIVE ParseUsers(_, _, _)
ParseUsers(toks, i, acc) ==
    IF IsTok(toks, i, TokP("}")) THEN Parsed(acc, i + 1)
    ELSE IF IsClass(toks, i, "k") /\ toks[i][2] \in UserIds
            /\ IsTok(toks, i + 1, TokP("{"))
    THEN LET r == ParseEntryMembers(toks, i + 2, EmptyDict)
         IN  IF r.ok
             THEN ParseUsers(toks, r.next, DictSet(acc, toks[i][2], r.v))
             ELSE ParseFail
    ELSE ParseFail

\* json.load of the registry file's whole content.
LoadUsers(toks) ==
    IF IsTok(toks, 1, TokP("{"))
    THEN LET r == ParseUsers(toks, 2, EmptyDict)
         IN  IF r.ok /\ r.next = Len(toks) + 1
             THEN [ok |-> TRUE, v |-> r.v]
             ELSE [ok |-> FALSE, v |-> EmptyDict]
    ELSE [ok |-> FALSE, v |-> EmptyDict]

\* ------------------------------------------------------------------- files
\* A path is <<kind, n>>: the entity file of key n, its quarantine sidecar,
\* the n-th temporary file name of the data directory, the registry, which
\* lies in the working directory, the n-th temporary file name there, or the
\* n-th archive of BACKUPS_DIR, whose content is member name -> content.
user_data_path(k) == <<"json", k>>
USERS_FILE == <<"users", 0>>

\* The files os.walk(DATA_DIR) finds.
InDataDir(path) == path[1] \in {"json", "bak", "tmp"}

\* The administrator: the least of the user ids.
OWNER_ID == CHOOSE k \in Keys : \A j \in Keys : k <= j
\* A quarantine that moves the file onto itself.
BakPathSame(path) == path

BakPath(path) == <<"bak", path[2]>>
TmpNames == 1..(MaxFaults + 1)

FsPut(f, p, c) == [x \in (DOMAIN f) \cup {p} |-> IF x = p THEN c ELSE f[x]]
FsRemove(f, p) == [x \in (DOMAIN f) \ {p} |-> f[x]]
\* shutil.move(src, dst) inside one directory: os.rename, which replaces dst.
FsMove(f, src, dst) == FsPut(FsRemove(f, src), dst, f[src])

\* A write that opens the target itself instead of a temporary file.
TmpPathInPlace(f, path) == path

\* The name NamedTemporaryFile picks in the directory of the target: one that
\* no file of the directory bears.
TmpPath(f, path) ==
    LET dir == IF InDataDir(path) THEN "tmp" ELSE "cwdtmp"
    IN  <<dir, CHOOSE n \in TmpNames :
                  /\ <<dir, n>> \notin DOMAIN f
                  /\ \A m \in TmpNames : m < n => <<dir, m>> \in DOMAIN f>>

\* --------------------------------------------------------------- migration
RECURSIVE MigrateSections(_, _)
MigrateSections(q, t) ==
    IF q = <<>> THEN <<>>
    ELSE <<SetDefault(SetDefault(Head(q), "updated_at", Iso(t)), "favorite", FALSE)>>
         \o MigrateSections(Tail(q), t)

\* A v1 -> v2 step that leaves schema_version as it was.
MigrateV1KeepVersion(data, t) ==
    LET d1 == SetDefault(data, "trash", <<>>)
        d2 == SetDefault(d1, "settings", [theme |-> "light"])
    IN  IF Has(d2, "sections")
        THEN DictSet(d2, "sections", MigrateSections(d2["sections"], t))
        ELSE d2

\* The v1 -> v2 step of migrate_user_file on a decoded dict, at clock reading t.
MigrateV1(data, t) ==
    LET d1 == SetDefault(data, "trash", <<>>)
        d2 == SetDefault(d1, "settings", [theme |-> "light"])
        d3 == IF Has(d2, "sections")
              THEN DictSet(d2, "sections", MigrateSections(d2["sections"], t))
              ELSE d2
    IN  DictSet(d3, "schema_version", 2)

\* A migration that rewrites every record whose version is not the current one.
MigrateNotCurrent(data, t) ==
    LET ver == DictGet(data, "schema_version", 1)
    IN  IF ver # 2
        THEN [changed |-> TRUE, data |-> MigrateV1(data, t)]
        ELSE [changed |-> FALSE, data |-> data]

\* A migration that takes the current version for an old one.
MigrateUpToCurrent(data, t) ==
    LET ver == DictGet(data, "schema_version", 1)
    IN  IF ver <= 2
        THEN [changed |-> TRUE, data |-> MigrateV1(data, t)]
        ELSE [changed |-> FALSE, data |-> data]

\* migrate_user_file after a successful json.load: changed, and the dict.
Migrate(data, t) ==
    LET ver == DictGet(data, "schema_version", 1)
    IN  IF ver < 2
        THEN [changed |-> TRUE, data |-> MigrateV1(data, t)]
        ELSE [changed |-> FALSE, data |-> data]

\* --------------------------------------------------------------- lifecycle
\* Each operation on the loaded record ud: save says whether the handler
\* goes on to save_user_data, ud is the record it saves.
Keep(ud) == [save |-> FALSE, ud |-> ud]
Save(ud) == [save |-> TRUE, ud |-> ud]

\* A toggle that marks the Section a favorite whatever it was.
ToggleFavSet(ud, idx, t) ==
    IF InRange(idx, ud["sections"])
    THEN LET s == ud["sections"][idx + 1]
             s2 == DictSet(DictSet(s, "favorite", TRUE), "updated_at", Iso(t))
         IN  Save(DictSet(ud, "sections", [ud["sections"] EXCEPT ![idx + 1] = s2]))
    ELSE Keep(ud)

ToggleFav(ud, idx, t) ==
    IF InRange(idx, ud["sections"])
    THEN LET s == ud["sections"][idx + 1]
             s2 == DictSet(DictSet(s, "favorite", ~DictGet(s, "favorite", FALSE)),
                           "updated_at", Iso(t))
         IN  Save(DictSet(ud, "sections", [ud["sections"] EXCEPT ![idx + 1] = s2]))
    ELSE Keep(ud)

\* A restore that leaves updated_at as it was.
RestoreFromTrashStale(ud, idx, t) ==
    IF InRange(idx, DictGet(ud, "trash", <<>>))
    THEN LET item == ud["trash"][idx + 1]
             u2 == DictSet(ud, "trash", ListPop(ud["trash"], idx))
         IN  Save(DictSet(u2, "sections", Append(u2["sections"], item)))
    ELSE Keep(ud)

RestoreFromTrash(ud, idx, t) ==
    IF InRange(idx, DictGet(ud, "trash", <<>>))
    THEN LET item == DictSet(ud["trash"][idx + 1], "updated_at", Iso(t))
             u2 == DictSet(ud, "trash", ListPop(ud["trash"], idx))
         IN  Save(DictSet(u2, "sections", Append(u2["sections"], item)))
    ELSE Keep(ud)

\* A purge that clamps the index into the trash instead of rejecting it.
PurgeTrashClamped(ud, idx) ==
    LET q == DictGet(ud, "trash", <<>>)
        i == IF idx < 0 THEN 0 ELSE IF idx >= Len(q) THEN Len(q) - 1 ELSE idx
    IN  IF q # <<>> THEN Save(DictSet(ud, "trash", ListPop(q, i))) ELSE Keep(ud)

PurgeTrash(ud, idx) ==
    IF InRange(idx, DictGet(ud, "trash", <<>>))
    THEN Save(DictSet(ud, "trash", ListPop(ud["trash"], idx)))
    ELSE Keep(ud)

\* A delete that appends the Section to trash and leaves it in sections.
SoftDeleteCopy(ud, idx, t) ==
    IF InRange(idx, ud["sections"])
    THEN LET item == DictSet(ud["sections"][idx + 1], "deleted_at", Iso(t))
             u3 == SetDefault(ud, "trash", <<>>)
         IN  Save(DictSet(u3, "trash", Append(u3["trash"], item)))
    ELSE Keep(ud)

\* A delete that moves the Section to trash without recording when.
SoftDeleteNoStamp(ud, idx, t) ==
    IF InRange(idx, ud["sections"])
    THEN LET item == ud["sections"][idx + 1]
             u2 == DictSet(ud, "sections", ListPop(ud["sections"], idx))
             u3 == SetDefault(u2, "trash", <<>>)
         IN  Save(DictSet(u3, "trash", Append(u3["trash"], item)))
    ELSE Keep(ud)

SoftDelete(ud, idx, t) ==
    IF InRange(idx, ud["sections"])
    THEN LET item == DictSet(ud["sections"][idx + 1], "deleted_at", Iso(t))
             u2 == DictSet(ud, "sections", ListPop(ud["sections"], idx))
             u3 == SetDefault(u2, "trash", <<>>)
         IN  Save(DictSet(u3, "trash", Append(u3["trash"], item)))
    ELSE Keep(ud)

\* An add that puts the new Section in front of the others.
AddSectionFront(ud, c, text, t) ==
    LET new_section == [title |-> DictGet(c, "new_title", "Untitled"),
                        image |-> DictGet(c, "new_image", None),
                        text |-> text,
                        favorite |-> FALSE,
                        updated_at |-> Iso(t)]
    IN  Save(DictSet(ud, "sections", <<new_section>> \o ud["sections"]))

AddSection(ud, c, text, t) ==
    LET new_section == [title |-> DictGet(c, "new_title", "Untitled"),
                        image |-> DictGet(c, "new_image", None),
                        text |-> text,
                        favorite |-> FALSE,
                        updated_at |-> Iso(t)]
    IN  Save(DictSet(ud, "sections", Append(ud["sections"], new_section)))

\* The try block of edit_apply_message: an index outside the list raises
\* IndexError, which the handler catches, and nothing is saved.
UpdateSection(ud, c, val, t) ==
    LET idx == c["edit_index"]
        which == c["which_edit"]
        at == Position(idx, ud["sections"])
    IN  IF Subscriptable(idx, ud["sections"])
        THEN LET s == ud["sections"][at]
                 s2 == IF which = "title" THEN DictSet(s, "title", val)
                       ELSE IF which = "image"
                            THEN DictSet(s, "image", IF val = "skip" THEN None ELSE val)
                       ELSE DictSet(s, "text", val)
                 s3 == DictSet(s2, "updated_at", Iso(t))
             IN  Save(DictSet(ud, "sections", [ud["sections"] EXCEPT ![at] = s3]))
        ELSE Keep(ud)

\* A restore that supplies an empty sections list where the payload has none.
RestoreEntityLenient(payload) ==
    LET r == Load(payload)
    IN  IF r.ok /\ r.shape = "dict"
        THEN Save(SetDefault(SetDefault(SetDefault(SetDefault(r.v,
                 "sections", <<>>),
                 "schema_version", SCHEMA_VERSION),
                 "trash", <<>>),
                 "settings", [theme |-> "light"]))
        ELSE Keep(EmptyDict)

\* A restore that stamps the current version over the one the payload has.
RestoreEntityStamped(payload) ==
    LET r == Load(payload)
    IN  IF r.ok /\ r.shape = "dict" /\ Has(r.v, "sections")
        THEN Save(SetDefault(SetDefault(DictSet(r.v,
                 "schema_version", SCHEMA_VERSION),
                 "trash", <<>>),
                 "settings", [theme |-> "light"]))
        ELSE Keep(EmptyDict)

\* restore_receive_file on the uploaded bytes: accepted, and the dict to save.
RestoreEntity(payload) ==
    LET r == Load(payload)
    IN  IF r.ok /\ r.shape = "dict" /\ Has(r.v, "sections")
        THEN Save(SetDefault(SetDefault(SetDefault(r.v,
                 "schema_version", SCHEMA_VERSION),
                 "trash", <<>>),
                 "settings", [theme |-> "light"]))
        ELSE Keep(EmptyDict)


\* ------------------------------------------------------------------- state
VARIABLES
    files,     \* the data directory: path -> content, for the paths that exist
    now,       \* the number of clock readings so far; a reading returns it
    faults,    \* crashes, I/O failures and damages so far
    phase,     \* "boot" (before main), "serving", "aborted" (main returned)
    procs,     \* the handler coroutines in flight, by slot
    running,   \* the slot whose coroutine holds the event loop, or 0
    wr,        \* the safe_write_json call in progress
    ctx,       \* context.user_data of each user; under "received" (beside it,
               \* on the user's device) the document send_user_backup last
               \* delivered to the user, and under "picked" (a key
               \* the code does not keep) the text of the Section that was at
               \* edit_index when editopen_ stored it
    conv       \* the ConversationHandler state of each user

vars == <<files, now, faults, phase, procs, running, wr, ctx, conv>>

Slots == {1, 2}

\* A coroutine: where it is (pc), the user it serves (k), the handler and its
\* input (op, idx, val) once it has one, what ensure_user_data found (via) and
\* read (seen), the record it holds (ud), and the document it is about to
\* send (doc): member name -> content.
Idle == [pc |-> "idle", op |-> "none", k |-> 0, idx |-> 0, val |-> "",
         via |-> "none", seen |-> <<>>, ud |-> EmptyDict, doc |-> <<>>]

NoPath == <<"none", 0>>
NoWrite == [stage |-> "none", path |-> NoPath, tmp |-> NoPath, toks |-> <<>>,
            old |-> <<>>, had |-> FALSE, s |-> 0]

\* ------------------------------------------------------------------ inputs
\* Indices a callback button can carry (restore_<i>, delete_<i>, ...).
Indices == -1..1

\* Documents a user can upload to /restore.
PayloadV1 ==
    Dump([sections |-> <<[title |-> "L", text |-> "old"]>>])
PayloadV1Settings ==
    Dump([schema_version |-> 1,
          sections |-> <<[title |-> "L", text |-> "old"]>>,
          settings |-> EmptyDict])
PayloadFuture ==
    Dump([schema_version |-> SCHEMA_VERSION + 1,
          sections |-> <<>>,
          trash |-> <<[title |-> "L", text |-> "old"]>>,
          settings |-> [theme |-> "dark"]])
PayloadNoSections == Dump([schema_version |-> SCHEMA_VERSION, trash |-> <<>>])
PayloadList == <<TokP("["), TokP("]")>>
PayloadGarbage == <<TokP("{"), TokK("sections")>>

Payloads == <<PayloadV1, PayloadV1Settings, PayloadFuture, PayloadNoSections,
              PayloadList, PayloadGarbage>>

\* What the data directory holds when the process is first started.
\* A registry in which the users ks are registered and logged in.
RegistryOf(ks) ==
    USERS_FILE :> DumpUsers([u \in {ToString(k) : k \in ks} |->
                                [password |-> "pw", logged_in |-> TRUE,
                                 settings |-> [theme |-> "light"]]])

InitialStores ==
    { RegistryOf(Editors),
      RegistryOf(Editors) @@ (user_data_path(1) :> PayloadV1),
      RegistryOf(Editors) @@ (user_data_path(1) :> PayloadList),
      RegistryOf(Editors) @@ (user_data_path(2) :> PayloadGarbage),
      USERS_FILE :> PayloadGarbage }

\* ---------------------------------------------------------------- the loop
\* A handler that awaits between load_user_data and save_user_data.
YieldsAtLoaded(pc) == pc \in {"reply", "loaded"}

\* The places where a handler awaits, so that another coroutine may run:
\* only the reply that ends it, after its last store operation.
YieldsAt(pc) == pc \in {"reply"}

FreeSlot == CHOOSE s \in Slots : procs[s].pc = "idle" /\
                \A r \in Slots : r < s => procs[r].pc # "idle"

CanBegin ==
    /\ phase = "serving"
    /\ running = 0
    /\ \E s \in Slots : procs[s].pc = "idle"

\* The coroutine in slot s moves on to p: it leaves the slot when p is the
\* final reply, and gives up the loop where it awaits.
Proceed(s, p) ==
    /\ procs' = [procs EXCEPT ![s] = IF p.pc = "reply" THEN Idle ELSE p]
    /\ running' = IF YieldsAt(p.pc) THEN 0 ELSE s

\* -------------------------------------------------------- safe_write_json
\* safe_write_json(path, obj) on the directory f, where json.dump(obj) is
\* toks, up to the creation of the empty temporary file.
BeginWriteIn(f, s, path, toks) ==
    LET tmp == TmpPath(f, path)
    IN  /\ files' = FsPut(f, tmp, <<>>)
        /\ wr' = [stage |-> "dump", path |-> path, tmp |-> tmp, toks |-> toks,
                  old |-> IF path \in DOMAIN f THEN f[path] ELSE <<>>,
                  had |-> path \in DOMAIN f, s |-> s]

BeginWrite(s, path, obj) == BeginWriteIn(files, s, path, Dump(obj))

\* save_users(users) on the directory f.
save_users(f, s, users) == BeginWriteIn(f, s, USERS_FILE, DumpUsers(users))

\* json.dump: the next buffer of text reaches the temporary file.
WriteDump ==
    /\ wr.stage = "dump"
    /\ LET have == Len(files[wr.tmp])
           upto == IF have + ChunkTokens < Len(wr.toks)
                   THEN have + ChunkTokens ELSE Len(wr.toks)
       IN  /\ files' = FsPut(files, wr.tmp, SubSeq(wr.toks, 1, upto))
           /\ wr' = [wr EXCEPT !.stage = IF upto = Len(wr.toks) THEN "sync" ELSE "dump"]
    /\ UNCHANGED <<now, faults, phase, procs, running, ctx, conv>>

\* tf.flush() and os.fsync, whose failure is swallowed; then the file closes.
WriteSync ==
    /\ wr.stage = "sync"
    /\ wr' = [wr EXCEPT !.stage = "move"]
    /\ UNCHANGED <<files, now, faults, phase, procs, running, ctx, conv>>

\* What the handler does once its save has returned, per conversation.
CtxAfter(p) ==
    IF p.op = "add"
    THEN [ctx EXCEPT ![p.k] = DictPop(DictPop(@, "new_title"), "new_image")]
    ELSE IF p.op = "edit"
    THEN [ctx EXCEPT ![p.k] =
            DictPop(DictPop(DictPop(DictPop(@, "edit_index"), "which_edit"),
                            "awaiting_edit"), "picked")]
    ELSE IF p.op = "backup" /\ Has(p.doc, "user_backup")
    THEN [ctx EXCEPT ![p.k] = DictSet(@, "received", p.doc["user_backup"])]
    ELSE ctx

ConvAfter(p) ==
    IF p.op \in {"add", "restorefile"} THEN [conv EXCEPT ![p.k] = "END"] ELSE conv

\* move(tmpname, path): the rename; the caller goes on after the write.
WriteMove ==
    /\ wr.stage = "move"
    /\ files' = FsMove(files, wr.tmp, wr.path)
    /\ wr' = NoWrite
    /\ LET p == procs[wr.s]
       IN  IF p.pc = "w_ensure"
           THEN /\ Proceed(wr.s, [p EXCEPT !.pc = "load"])
                /\ UNCHANGED <<ctx, conv>>
           ELSE IF p.pc = "w_users"
           THEN /\ Proceed(wr.s, [p EXCEPT !.pc = IF p.op \in {"login", "register"}
                                                 THEN "ensure" ELSE "send"])
                /\ UNCHANGED <<ctx, conv>>
           ELSE /\ Proceed(wr.s, [p EXCEPT !.pc = "reply"])
                /\ ctx' = CtxAfter(p)
                /\ conv' = ConvAfter(p)
    /\ UNCHANGED <<now, faults, phase>>


\* An I/O error inside safe_write_json (json.dump, flush or move raising):
\* the temporary file stays as it is, the target is not touched, and the
\* exception reaches the handler, which catches it only in the try blocks of
\* edit_apply_message and restore_receive_file.
WriteFail ==
    /\ wr.stage \in {"dump", "sync", "move"}
    /\ faults < MaxFaults
    /\ faults' = faults + 1
    /\ wr' = NoWrite
    /\ LET p == procs[wr.s]
       IN  IF p.pc = "w_save" /\ p.op \in {"edit", "restorefile"}
           THEN /\ Proceed(wr.s, [p EXCEPT !.pc = "reply"])
                /\ ctx' = CtxAfter(p)
                /\ conv' = ConvAfter(p)
           ELSE /\ Proceed(wr.s, [p EXCEPT !.pc = "raised", !.via = "ioerror"])
                /\ UNCHANGED <<ctx, conv>>
    /\ UNCHANGED <<files, now, phase>>

\* ------------------------------------------- ensure_user_data / load / save
\* ensure_user_data(k) of the coroutine p in slot s, up to its first effect on
\* the directory.  A missing file is created, an unparseable one is moved
\* aside, a parseable one is migrated; data.get on a value that is no dict
\* raises out of the handler.  Where nothing is to be written, load_user_data
\* goes on to read the file.
Ensure(s, p0) ==
    LET path == user_data_path(p0.k)
        p == [p0 EXCEPT !.seen = IF path \in DOMAIN files THEN files[path] ELSE <<>>]
    IN  IF path \notin DOMAIN files
        THEN /\ BeginWrite(s, path, default_user_structure)
             /\ Proceed(s, [p EXCEPT !.pc = "w_ensure", !.via = "created"])
             /\ now' = now
        ELSE LET r == Load(files[path])
                 m == Migrate(r.v, now + 1)
             IN  IF ~r.ok
                 THEN /\ files' = FsMove(files, path, BakPath(path))
                      /\ Proceed(s, [p EXCEPT !.pc = "quarantined", !.via = "quarantine"])
                      /\ UNCHANGED <<wr, now>>
                 ELSE IF r.shape # "dict"
                 THEN /\ Proceed(s, [p EXCEPT !.pc = "raised", !.via = "notdict"])
                      /\ UNCHANGED <<files, wr, now>>
                 ELSE IF m.changed
                 THEN /\ now < MaxOps
                      /\ BeginWrite(s, path, m.data)
                      /\ Proceed(s, [p EXCEPT !.pc = "w_ensure", !.via = "migrated"])
                      /\ now' = now + 1
                 ELSE /\ Proceed(s, [p EXCEPT !.pc = "loaded", !.via = "asis", !.ud = r.v])
                      /\ UNCHANGED <<files, wr, now>>

\* A request of user k reaches a handler, which calls load_user_data(user.id)
\* first: ensure_user_data, up to its first effect on the directory.
load_user_data ==
    \E k \in Keys :
        /\ phase = "serving"
        /\ running = 0
        /\ \E s \in Slots : procs[s].pc = "idle"
        /\ Ensure(FreeSlot, [Idle EXCEPT !.k = k])
        /\ UNCHANGED <<faults, phase, ctx, conv>>

\* A recovery that moves the file aside and writes nothing in its place.
QuarantinedSkipsWrite ==
    \E s \in Slots :
        /\ procs[s].pc = "quarantined"
        /\ running = s
        /\ Proceed(s, [procs[s] EXCEPT !.pc = "load"])
        /\ UNCHANGED <<files, wr, now, faults, phase, ctx, conv>>

\* migrate_user_file after move(path, bak): the default record is written.
Quarantined ==
    \E s \in Slots :
        /\ procs[s].pc = "quarantined"
        /\ running = s
        /\ BeginWrite(s, user_data_path(procs[s].k), default_user_structure)
        /\ Proceed(s, [procs[s] EXCEPT !.pc = "w_ensure"])
        /\ UNCHANGED <<now, faults, phase, ctx, conv>>

\* load_user_data after ensure_user_data has written: open and json.load.
LoadAfterEnsure ==
    \E s \in Slots :
        /\ procs[s].pc = "load"
        /\ procs[s].op = "none"
        /\ running \in {0, s}
        /\ wr.stage = "none"
        /\ LET r == Load(files[user_data_path(procs[s].k)])
           IN  IF r.ok
               THEN Proceed(s, [procs[s] EXCEPT !.pc = "loaded", !.ud = r.v])
               ELSE Proceed(s, [procs[s] EXCEPT !.pc = "raised"])
        /\ UNCHANGED <<files, now, faults, phase, wr, ctx, conv>>

\* An exception left the handler: the dispatcher logs it and goes on.
HandlerRaised ==
    \E s \in Slots :
        /\ procs[s].pc = "raised"
        /\ running \in {0, s}
        /\ procs' = [procs EXCEPT ![s] = Idle]
        /\ running' = 0
        /\ UNCHANGED <<files, now, faults, phase, wr, ctx, conv>>

\* ---------------------------------------------------------------- handlers
\* load_users(): ok = FALSE where open or json.load raises.
load_users ==
    IF USERS_FILE \in DOMAIN files
    THEN LoadUsers(files[USERS_FILE])
    ELSE [ok |-> FALSE, v |-> EmptyDict]

is_logged_in(k) ==
    /\ load_users.ok
    /\ Has(load_users.v, ToString(k))
    /\ DictGet(load_users.v[ToString(k)], "logged_in", FALSE)

\* A handler that is_logged_in turns away: it replies and ends, and where
\* load_users raises the exception leaves the handler.
PleaseLogin(op, k) ==
    [Idle EXCEPT !.op = op, !.k = k, !.val = "Please /login first",
                 !.pc = IF load_users.ok THEN "send" ELSE "raised"]

\* The coroutine in slot s holds the record load_user_data returned.
Loaded(s) ==
    /\ procs[s].pc = "loaded"
    /\ procs[s].op = "none"
    /\ running \in {0, s}
    /\ wr.stage = "none"

\* The handler op of slot s ends its read-modify-write on the loaded record:
\* res says whether it saves, and what; t is 1 if it read the clock.
Finish(s, op, idx, val, res, t) ==
    LET p == [procs[s] EXCEPT !.op = op, !.idx = idx, !.val = val]
    IN  IF res.save
        THEN /\ now + t <= MaxOps
             /\ BeginWrite(s, user_data_path(p.k), res.ud)
             /\ Proceed(s, [p EXCEPT !.pc = "w_save", !.ud = res.ud])
             /\ now' = now + t
             /\ UNCHANGED <<faults, phase, ctx, conv>>
        ELSE /\ Proceed(s, [p EXCEPT !.pc = "reply"])
             /\ ctx' = CtxAfter(p)
             /\ conv' = ConvAfter(p)
             /\ UNCHANGED <<files, now, faults, phase, wr>>

\* callback_router, menu_show: a plain get.
ShowCallback ==
    \E s \in Slots :
        /\ Loaded(s)
        /\ Finish(s, "show", 0, "", Keep(procs[s].ud), 0)

\* callback_router, togglefav_<idx>.
TogglefavCallback ==
    \E s \in Slots, idx \in Indices :
        /\ Loaded(s)
        /\ procs[s].k \in Editors
        /\ Finish(s, "togglefav", idx, "", ToggleFav(procs[s].ud, idx, now + 1), 1)

\* callback_router, restore_<idx>.
RestoreCallback ==
    \E s \in Slots, idx \in Indices :
        /\ Loaded(s)
        /\ procs[s].k \in Editors
        /\ Finish(s, "restore", idx, "", RestoreFromTrash(procs[s].ud, idx, now + 1), 1)

\* callback_router, purge_<idx>.
PurgeCallback ==
    \E s \in Slots, idx \in Indices :
        /\ Loaded(s)
        /\ procs[s].k \in Editors
        /\ Finish(s, "purge", idx, "", PurgeTrash(procs[s].ud, idx), 0)

\* inline_edit_delete_router, delete_<idx>.
DeleteCallback ==
    \E s \in Slots, idx \in Indices :
        /\ Loaded(s)
        /\ procs[s].k \in Editors
        /\ Finish(s, "delete", idx, "", SoftDelete(procs[s].ud, idx, now + 1), 1)

\* inline_edit_delete_router, editopen_<idx>.
EditopenCallback ==
    \E s \in Slots, idx \in Indices :
        /\ Loaded(s)
        /\ procs[s].k \in Editors
        /\ Proceed(s, [procs[s] EXCEPT !.pc = "reply"])
        /\ ctx' = IF InRange(idx, procs[s].ud["sections"])
                  THEN [ctx EXCEPT ![procs[s].k] =
                          DictSet(DictSet(@, "edit_index", idx),
                                  "picked", procs[s].ud["sections"][idx + 1]["text"])]
                  ELSE ctx
        /\ UNCHANGED <<files, now, faults, phase, wr, conv>>

\* inline_edit_delete_router, edit_field_<field>.
EditFieldCallback ==
    \E k \in Editors, field \in {"title", "image", "text"} :
        /\ CanBegin
        /\ Has(ctx[k], "edit_index")
        /\ ctx' = [ctx EXCEPT ![k] =
                     DictSet(DictSet(@, "which_edit", field), "awaiting_edit", TRUE)]
        /\ UNCHANGED <<files, now, faults, phase, procs, running, wr, conv>>

InAddConversation(k) == conv[k] \in {"ADD_TITLE", "ADD_IMAGE", "ADD_TEXT"}

\* The text of a message the user sends: each one differs from the others,
\* but for the word skip, which the user sends for an image only.
MessageText(prefix) == prefix \o ToString(now + 1)

edit_apply_message ==
    \E s \in Slots :
      LET val == IF DictGet(ctx[procs[s].k], "which_edit", "") = "image"
                 THEN "skip" ELSE MessageText("e")
      IN
        /\ Loaded(s)
        /\ procs[s].k \in Editors
        /\ ~InAddConversation(procs[s].k)
        /\ DictGet(ctx[procs[s].k], "awaiting_edit", FALSE)
        /\ Has(ctx[procs[s].k], "edit_index")
        /\ Has(ctx[procs[s].k], "which_edit")
        /\ Finish(s, "edit", 0, val,
                  UpdateSection(procs[s].ud, ctx[procs[s].k], val, now + 1), 1)

add_start ==
    \E k \in Editors :
        /\ CanBegin
        /\ conv[k] = "END"
        /\ IF is_logged_in(k)
           THEN /\ conv' = [conv EXCEPT ![k] = "ADD_TITLE"]
                /\ UNCHANGED <<procs, running>>
           ELSE /\ Proceed(FreeSlot, PleaseLogin("add_start", k))
                /\ UNCHANGED conv
        /\ UNCHANGED <<files, now, faults, phase, wr, ctx>>

add_title ==
    \E k \in Editors :
        /\ CanBegin
        /\ conv[k] = "ADD_TITLE"
        /\ ctx' = [ctx EXCEPT ![k] = DictSet(@, "new_title", "A")]
        /\ conv' = [conv EXCEPT ![k] = "ADD_IMAGE"]
        /\ UNCHANGED <<files, now, faults, phase, procs, running, wr>>

add_image ==
    \E k \in Editors, txt \in {"skip", "u"} :
        /\ CanBegin
        /\ conv[k] = "ADD_IMAGE"
        /\ ctx' = [ctx EXCEPT ![k] =
                     DictSet(@, "new_image", IF txt = "skip" THEN None ELSE txt)]
        /\ conv' = [conv EXCEPT ![k] = "ADD_TEXT"]
        /\ UNCHANGED <<files, now, faults, phase, procs, running, wr>>

add_text ==
    \E s \in Slots :
        /\ Loaded(s)
        /\ procs[s].k \in Editors
        /\ conv[procs[s].k] = "ADD_TEXT"
        /\ Finish(s, "add", 0, MessageText("m"),
                  AddSection(procs[s].ud, ctx[procs[s].k], MessageText("m"), now + 1), 1)

restore_start ==
    \E k \in Editors :
        /\ CanBegin
        /\ conv[k] = "END"
        /\ IF is_logged_in(k)
           THEN /\ conv' = [conv EXCEPT ![k] = "RESTORE_WAIT_FILE"]
                /\ UNCHANGED <<procs, running>>
           ELSE /\ Proceed(FreeSlot, PleaseLogin("restore_start", k))
                /\ UNCHANGED conv
        /\ UNCHANGED <<files, now, faults, phase, wr, ctx>>

\* restore_receive_file of user k on a document with the bytes payload,
\* which is the i-th of Payloads, or i = 0 and the user's received backup.
RestoreReceive(k, i, payload) ==
        /\ CanBegin
        /\ conv[k] = "RESTORE_WAIT_FILE"
        /\ LET res == RestoreEntity(payload)
               p == [Idle EXCEPT !.op = "restorefile", !.k = k, !.idx = i,
                                 !.pc = "w_save", !.ud = res.ud]
           IN  IF res.save
               THEN /\ BeginWrite(FreeSlot, user_data_path(k), res.ud)
                    /\ Proceed(FreeSlot, p)
                    /\ UNCHANGED conv
               ELSE /\ Proceed(FreeSlot, [p EXCEPT !.pc = "send", !.val = "Restore failed"])
                    /\ UNCHANGED <<files, wr, conv>>
        /\ UNCHANGED <<now, faults, phase, ctx>>

restore_receive_file ==
    \E k \in Editors, i \in DOMAIN Payloads : RestoreReceive(k, i, Payloads[i])

\* restore_receive_file on the document the user got from send_user_backup.
restore_received_backup ==
    \E k \in Editors :
        /\ Has(ctx[k], "received")
        /\ RestoreReceive(k, 0, ctx[k]["received"])

\* The last await of a handler, reply_text or reply_document, returns: the
\* handler returns, and with it the state of its conversation.
Sent ==
    \E s \in Slots :
        /\ procs[s].pc = "send"
        /\ running = s
        /\ Proceed(s, [procs[s] EXCEPT !.pc = "reply"])
        /\ ctx' = CtxAfter(procs[s])
        /\ conv' = ConvAfter(procs[s])
        /\ UNCHANGED <<files, now, faults, phase, wr>>

\* ------------------------------------------------- process and environment
NoCtx == [k \in Keys |-> EmptyDict]
NoConv == [k \in Keys |-> "END"]

\* ------------------------------------------------------ registry handlers
\* text_message_handler: a text is the password of a login where the sender
\* is registered and logged out, of a registration where the sender is not
\* registered, and is answered with guidance otherwise.
\* What a message can hold: a password as typed, or with blanks around it.
Texts == Passwords \cup {" pw "}

\* str.strip() on the texts of Texts.
Strip(text) == IF text = " pw " THEN "pw" ELSE text

\* A comparison that accepts every text.
PasswordIgnored(e, txt) == TRUE

\* users[uid]["password"] == txt
PasswordMatches(e, txt) == e["password"] = txt

\* The handler on the message text of user k, up to its first await.
TextMessage(k, text) ==
        /\ CanBegin
        /\ conv[k] = "END"
        /\ LET txt == Strip(text)
               r == load_users
               uid == ToString(k)
               p == [Idle EXCEPT !.k = k, !.val = txt]
           IN  IF ~r.ok
               THEN /\ Proceed(FreeSlot, [p EXCEPT !.op = "text", !.pc = "raised"])
                    /\ UNCHANGED <<files, wr>>
               ELSE IF Has(r.v, uid) /\ ~DictGet(r.v[uid], "logged_in", FALSE)
               THEN IF ~Has(r.v[uid], "password")
                    THEN /\ Proceed(FreeSlot, [p EXCEPT !.op = "login", !.pc = "raised"])
                         /\ UNCHANGED <<files, wr>>
                    ELSE IF PasswordMatches(r.v[uid], txt)
                    THEN /\ save_users(files, FreeSlot,
                                       [r.v EXCEPT ![uid] = DictSet(@, "logged_in", TRUE)])
                         /\ Proceed(FreeSlot, [p EXCEPT !.op = "login", !.pc = "w_users"])
                    ELSE /\ Proceed(FreeSlot, [p EXCEPT !.op = "login", !.pc = "send",
                                                       !.val = "Wrong password"])
                         /\ UNCHANGED <<files, wr>>
               ELSE IF ~Has(r.v, uid)
               THEN /\ save_users(files, FreeSlot,
                                  DictSet(r.v, uid, [password |-> txt,
                                                     logged_in |-> TRUE,
                                                     settings |-> [theme |-> "light"]]))
                    /\ Proceed(FreeSlot, [p EXCEPT !.op = "register", !.pc = "w_users"])
               ELSE /\ Proceed(FreeSlot, [p EXCEPT !.op = "text", !.pc = "send",
                                                  !.val = "Use the buttons"])
                    /\ UNCHANGED <<files, wr>>
        /\ UNCHANGED <<now, faults, phase, ctx, conv>>

text_message_handler == \E k \in Editors, text \in Texts : TextMessage(k, text)

\* text_message_handler after save_users: ensure_user_data(user.id).
EnsureAfterSave ==
    \E s \in Slots :
        /\ procs[s].pc = "ensure"
        /\ running = s
        /\ Ensure(s, procs[s])
        /\ UNCHANGED <<faults, phase, ctx, conv>>

\* text_message_handler after ensure_user_data: the reply.
LoginReplies ==
    \E s \in Slots :
        /\ procs[s].pc \in {"load", "loaded"}
        /\ procs[s].op \in {"login", "register"}
        /\ running \in {0, s}
        /\ wr.stage = "none"
        /\ Proceed(s, [procs[s] EXCEPT !.pc = "send", !.val = "Logged in"])
        /\ UNCHANGED <<files, now, faults, phase, wr, ctx, conv>>

\* logout_cmd, and the menu_logout branch of callback_router.
logout_cmd ==
    \E k \in Keys :
        /\ CanBegin
        /\ LET r == load_users
               uid == ToString(k)
               p == [Idle EXCEPT !.op = "logout", !.k = k, !.val = "Logged out"]
           IN  IF ~r.ok
               THEN /\ Proceed(FreeSlot, [p EXCEPT !.pc = "raised"])
                    /\ UNCHANGED <<files, wr>>
               ELSE IF Has(r.v, uid)
               THEN /\ save_users(files, FreeSlot,
                                  [r.v EXCEPT ![uid] = DictSet(@, "logged_in", FALSE)])
                    /\ Proceed(FreeSlot, [p EXCEPT !.pc = "w_users"])
               ELSE /\ Proceed(FreeSlot, [p EXCEPT !.pc = "send"])
                    /\ UNCHANGED <<files, wr>>
        /\ UNCHANGED <<now, faults, phase, ctx, conv>>

\* toggle_theme_callback, the menu_theme branch of callback_router: the
\* entry of the user, or an empty dict where there is none, gets the other
\* theme and is stored under the user's id.
toggle_theme_callback ==
    \E k \in Keys :
        /\ CanBegin
        /\ LET r == load_users
               uid == ToString(k)
               u == DictGet(r.v, uid, EmptyDict)
               settings == DictGet(u, "settings", [theme |-> "light"])
               cur == DictGet(settings, "theme", "light")
               new == IF cur = "light" THEN "dark" ELSE "light"
               p == [Idle EXCEPT !.op = "theme", !.k = k, !.val = new]
           IN  IF ~r.ok
               THEN /\ Proceed(FreeSlot, [p EXCEPT !.pc = "raised"])
                    /\ UNCHANGED <<files, wr>>
               ELSE /\ save_users(files, FreeSlot,
                                  DictSet(r.v, uid,
                                          DictSet(u, "settings",
                                                  DictSet(settings, "theme", new))))
                    /\ Proceed(FreeSlot, [p EXCEPT !.pc = "w_users"])
        /\ UNCHANGED <<now, faults, phase, ctx, conv>>

\* InputFile(obj) of a str: the document's content is the string itself.
PathText(path) == <<<<"text", path>>>>

\* send_user_backup: the document built from InputFile(path).
send_user_backup ==
    \E k \in Keys :
        /\ CanBegin
        /\ LET path == user_data_path(k)
               p == [Idle EXCEPT !.op = "backup", !.k = k, !.pc = "send"]
           IN  IF path \notin DOMAIN files
               THEN Proceed(FreeSlot, [p EXCEPT !.val = "No data to backup"])
               ELSE Proceed(FreeSlot, [p EXCEPT !.val = "Your data backup",
                                                !.doc = "user_backup" :> PathText(path)])
        /\ UNCHANGED <<files, now, faults, phase, wr, ctx, conv>>

\* ------------------------------------------------------------------- admin
\* The callback data of the buttons admin_cmd and main_menu_markup offer.
AdminButtons == {"admin_panel", "admin_total", "admin_list_users", "admin_backup_all"}

Denied == [raised |-> FALSE, val |-> "Access denied", doc |-> <<>>]

\* The archive admin_panel_callback zips: every file under DATA_DIR, and the
\* registry as json.dumps(load_users()) writes it.
all_data_backup ==
    [n \in {p \in DOMAIN files : InDataDir(p)} \cup {USERS_FILE} |->
        IF n = USERS_FILE THEN DumpUsers(load_users.v) ELSE files[n]]

\* admin_panel_callback(query) for the sender u and the callback data.
admin_panel_callback(u, data) ==
    IF u # OWNER_ID THEN Denied
    ELSE IF data = "admin_backup_all"
    THEN IF load_users.ok
         THEN [raised |-> FALSE, val |-> "All data backup", doc |-> all_data_backup]
         ELSE [raised |-> TRUE, val |-> "", doc |-> <<>>]
    ELSE [raised |-> FALSE, val |-> "", doc |-> <<>>]

\* The admin branches of callback_router for the sender u and the callback
\* data of a button without a target, and the end of the function, which
\* data that no branch matches reaches.
callback_router(u, data) ==
    IF data = "admin_panel"
    THEN IF u # OWNER_ID THEN Denied ELSE admin_panel_callback(u, data)
    ELSE IF data = "admin_total"
    THEN IF u # OWNER_ID THEN Denied
         ELSE IF ~load_users.ok THEN [raised |-> TRUE, val |-> "", doc |-> <<>>]
         ELSE [raised |-> FALSE, doc |-> <<>>,
               val |-> ToString(Cardinality(DOMAIN load_users.v))]
    ELSE IF data = "admin_list_users"
    THEN IF u # OWNER_ID THEN Denied
         ELSE IF ~load_users.ok THEN [raised |-> TRUE, val |-> "", doc |-> <<>>]
         ELSE [raised |-> FALSE, doc |-> <<>>,
               val |-> IF DOMAIN load_users.v = {} THEN "No registered users"
                       ELSE "Registered users"]
    ELSE [raised |-> FALSE, val |-> "Unknown action", doc |-> <<>>]

\* A tap on one of the admin buttons reaches callback_router.
AdminCallback ==
    \E u \in Keys, data \in AdminButtons :
        /\ CanBegin
        /\ LET r == callback_router(u, data)
           IN  Proceed(FreeSlot, [Idle EXCEPT !.op = data, !.k = u,
                                              !.pc = IF r.raised THEN "raised" ELSE "send",
                                              !.val = r.val, !.doc = r.doc])
        /\ UNCHANGED <<files, now, faults, phase, wr, ctx, conv>>

\* callback_router on admin_delete_<tid> from the sender u: the entity file
\* of tid is removed and its entry leaves the registry.
AdminDeleteCallback ==
    \E u \in Keys, tid \in Keys :
        /\ CanBegin
        /\ LET p == [Idle EXCEPT !.op = "admin_delete", !.k = u, !.idx = tid]
               path == user_data_path(tid)
               f == IF path \in DOMAIN files THEN FsRemove(files, path) ELSE files
               r == load_users
           IN  IF u # OWNER_ID
               THEN /\ Proceed(FreeSlot, [p EXCEPT !.pc = "send", !.val = "Access denied"])
                    /\ UNCHANGED <<files, wr>>
               ELSE IF ~r.ok
               THEN /\ files' = f
                    /\ Proceed(FreeSlot, [p EXCEPT !.pc = "raised"])
                    /\ UNCHANGED wr
               ELSE IF Has(r.v, ToString(tid))
               THEN /\ save_users(f, FreeSlot, DictPop(r.v, ToString(tid)))
                    /\ Proceed(FreeSlot, [p EXCEPT !.pc = "w_users",
                                                   !.val = "User data deleted"])
               ELSE /\ files' = f
                    /\ Proceed(FreeSlot, [p EXCEPT !.pc = "send",
                                                   !.val = "User data deleted"])
                    /\ UNCHANGED wr
        /\ UNCHANGED <<now, faults, phase, ctx, conv>>

\* ----------------------------------------------------------------- startup
\* is_valid_json_file(path) on the directory f.
is_valid_json_file(f, path) ==
    IF path = USERS_FILE THEN LoadUsers(f[path]).ok ELSE Load(f[path]).ok

\* A validation that leaves the registry out.
BadFilesDataOnly(f) == {p \in DOMAIN f : InDataDir(p) /\ ~Load(f[p]).ok}

\* The paths startup_backup_and_check collects in bad.
BadFilesIn(f) ==
    {p \in DOMAIN f : (p = USERS_FILE \/ InDataDir(p)) /\ ~is_valid_json_file(f, p)}

BadFiles == BadFilesIn(files)

\* The name of the next archive in BACKUPS_DIR: prestart_<time>.tar.gz.
PrestartPath(f) ==
    <<"prestart", 1 + Cardinality({p \in DOMAIN f : p[1] = "prestart"})>>

\* An archive of the data directory alone.
PrestartDataOnly(f) == [p \in {q \in DOMAIN f : InDataDir(q)} |-> f[p]]

\* The archive startup_backup_and_check writes on the directory f: the
\* registry and every file under DATA_DIR, by member name.
Prestart(f) ==
    [p \in {q \in DOMAIN f : q = USERS_FILE \/ InDataDir(q)} |-> f[p]]

\* The module body creates the registry where there is none; then main:
\* startup_backup_and_check writes the archive and validates, and the
\* handlers are registered unless it raised.
Startup ==
    /\ phase = "boot"
    /\ LET f == IF USERS_FILE \in DOMAIN files THEN files
                ELSE FsPut(files, USERS_FILE, DumpUsers(EmptyDict))
       IN  /\ files' = FsPut(f, PrestartPath(f), Prestart(f))
           /\ phase' = IF BadFilesIn(f) = {} THEN "serving" ELSE "aborted"
    /\ UNCHANGED <<now, faults, procs, running, wr, ctx, conv>>

\* The process dies at any point; the directory stays as it is, what the
\* process held in memory is gone, and the process is started again.
Crash ==
    /\ phase = "serving"
    /\ faults < MaxFaults
    /\ faults' = faults + 1
    /\ phase' = "boot"
    /\ procs' = [s \in Slots |-> Idle]
    /\ running' = 0
    /\ wr' = NoWrite
    /\ ctx' = NoCtx
    /\ conv' = NoConv
    /\ UNCHANGED <<files, now>>

\* Something outside the program damages an entity file between two
\* requests: its last token is lost.
Damage ==
    \E k \in Keys :
        /\ phase = "serving"
        /\ running = 0
        /\ faults < MaxFaults
        /\ user_data_path(k) \in DOMAIN files
        /\ faults' = faults + 1
        /\ files' = [files EXCEPT ![user_data_path(k)] = SubSeq(@, 1, Len(@) - 1)]
        /\ UNCHANGED <<now, phase, procs, running, wr, ctx, conv>>

\* The same damage to a file that json.load still accepts, as often as there
\* is such a file.
DamageSound ==
    \E k \in Editors :
        /\ phase = "serving"
        /\ running = 0
        /\ user_data_path(k) \in DOMAIN files
        /\ Load(files[user_data_path(k)]).ok
        /\ files' = [files EXCEPT ![user_data_path(k)] = SubSeq(@, 1, Len(@) - 1)]
        /\ UNCHANGED <<now, faults, phase, procs, running, wr, ctx, conv>>

InitWith(stores) ==
    /\ files \in stores
    /\ now = 0
    /\ faults = 0
    /\ phase = "boot"
    /\ procs = [s \in Slots |-> Idle]
    /\ running = 0
    /\ wr = NoWrite
    /\ ctx = NoCtx
    /\ conv = NoConv

Init == InitWith(InitialStores)

\* The steps every request shares: the store operations and the write.
StoreStep ==
    \/ Startup
    \/ load_user_data
    \/ LoadAfterEnsure
    \/ ShowCallback
    \/ WriteDump
    \/ WriteSync
    \/ WriteMove

\* The handlers of the record lifecycle.
LifecycleStep ==
    \/ TogglefavCallback
    \/ RestoreCallback
    \/ PurgeCallback
    \/ DeleteCallback
    \/ EditopenCallback
    \/ EditFieldCallback
    \/ edit_apply_message
    \/ add_start
    \/ add_title
    \/ add_image
    \/ add_text

\* Restore from an uploaded backup.
BackupStep ==
    \/ restore_start
    \/ restore_receive_file
    \/ Sent

\* Failures, and what follows them.
FaultStep ==
    \/ Quarantined
    \/ HandlerRaised
    \/ WriteFail
    \/ Crash
    \/ Damage

\* Registration, login and logout, the user's backup and the admin buttons.
AdminStep ==
    \/ text_message_handler
    \/ EnsureAfterSave
    \/ LoginReplies
    \/ logout_cmd
    \/ send_user_backup
    \/ AdminCallback
    \/ AdminDeleteCallback

Next ==
    \/ StoreStep
    \/ LifecycleStep
    \/ BackupStep
    \/ FaultStep
    \/ AdminStep
    \/ DamageSound
    \/ toggle_theme_callback
    \/ restore_received_backup

Spec == Init /\ [][Next]_vars

\* The record lifecycle alone, on an empty store and without failures.
InitLifecycle == InitWith({RegistryOf(Editors)})
NextLifecycle == StoreStep \/ LifecycleStep
SpecLifecycle == InitLifecycle /\ [][NextLifecycle]_vars

\* The store under failures, old files and uploaded backups, with the one
\* lifecycle handler that deletes.
NextStore == StoreStep \/ BackupStep \/ FaultStep \/ DeleteCallback
SpecStore == Init /\ [][NextStore]_vars

\* The edit flow on a store that holds a record with two Sections, beside
\* the handler that deletes.
StoredTwoSections ==
    Dump([schema_version |-> SCHEMA_VERSION,
          sections |-> <<[title |-> "A", image |-> None, text |-> "a",
                          favorite |-> FALSE, updated_at |-> Iso(0)],
                         [title |-> "B", image |-> None, text |-> "b",
                          favorite |-> FALSE, updated_at |-> Iso(0)]>>,
          trash |-> <<>>,
          settings |-> [theme |-> "light"]])
InitEdit == InitWith({RegistryOf(Editors) @@ (user_data_path(1) :> StoredTwoSections)})
NextEdit ==
    \/ StoreStep
    \/ EditopenCallback
    \/ EditFieldCallback
    \/ edit_apply_message
    \/ DeleteCallback
SpecEdit == InitEdit /\ [][NextEdit]_vars

\* The store and the registry from the first start on, or from a directory
\* that an earlier version of the program left, under failures.
InitAdmin == InitWith({<<>>})
NextAdmin ==
    \/ StoreStep
    \/ AdminStep
    \/ Sent
    \/ Quarantined
    \/ HandlerRaised
    \/ WriteFail
    \/ DamageSound
SpecAdmin == InitAdmin /\ [][NextAdmin]_vars

\* Corrupt-file recovery, as often as a file is damaged, on a directory that
\* an earlier version of the program left.
InitQuarantine == InitWith({RegistryOf(Editors) @@ (user_data_path(1) :> PayloadV1)})
NextQuarantine == StoreStep \/ Quarantined \/ DamageSound
SpecQuarantine == InitQuarantine /\ [][NextQuarantine]_vars

\* The registry under registration, login, logout, the theme button and the
\* owner's delete, from no registry and from one that holds another user.
InitRegistry == InitWith({<<>>, RegistryOf(Keys \ Editors)})
NextRegistry ==
    \/ Startup
    \/ text_message_handler
    \/ EnsureAfterSave
    \/ LoginReplies
    \/ logout_cmd
    \/ toggle_theme_callback
    \/ AdminDeleteCallback
    \/ Sent
    \/ HandlerRaised
    \/ WriteDump
    \/ WriteSync
    \/ WriteMove
SpecRegistry == InitRegistry /\ [][NextRegistry]_vars

\* The buttons of a rendered record and logout, for a user who is logged in
\* and has a record with two Sections.
InitSession ==
    InitWith({RegistryOf(Editors) @@ (user_data_path(1) :> StoredTwoSections)})
NextSession ==
    \/ StoreStep
    \/ logout_cmd
    \/ Sent
    \/ TogglefavCallback
    \/ DeleteCallback
    \/ RestoreCallback
    \/ PurgeCallback
SpecSession == InitSession /\ [][NextSession]_vars

\* The user's backup and its restore, around the buttons that change the
\* record, for a user who is logged in and has a record with two Sections.
InitBackup ==
    InitWith({RegistryOf(Editors) @@ (user_data_path(1) :> StoredTwoSections)})
NextBackup ==
    \/ StoreStep
    \/ send_user_backup
    \/ Sent
    \/ restore_start
    \/ restore_received_backup
    \/ TogglefavCallback
    \/ DeleteCallback
SpecBackup == InitBackup /\ [][NextBackup]_vars

\* ------------------------------------------------------------------ claims
Present(f, p) == p \in DOMAIN f

EntityPaths == {user_data_path(k) : k \in Keys}

\* The record on disk for key k, where the file exists and parses to a dict.
HasRecord(k) ==
    /\ Present(files, user_data_path(k))
    /\ Load(files[user_data_path(k)]).ok
    /\ Load(files[user_data_path(k)]).shape = "dict"

RecordOf(k) == Load(files[user_data_path(k)]).v

\* The target of the write w holds what it held when the write began.
TargetUntouched(w, f) ==
    IF w.had THEN Present(f, w.path) /\ f[w.path] = w.old ELSE ~Present(f, w.path)

\* C1: while safe_write_json is between the creation of its temporary file
\* and the rename, the target holds exactly what it held before (through a
\* partly written payload, an I/O failure and a crash alike); the content of
\* an entity file changes in one step only, the rename, which installs the
\* complete new text, or by damage from outside the program.
AtomicWrite ==
    [][ /\ wr.stage # "none" => TargetUntouched(wr, files)
        /\ wr'.stage # "none" => TargetUntouched(wr', files')
        /\ \A p \in EntityPaths :
              (Present(files', p) /\ (~Present(files, p) \/ files'[p] # files[p]))
              => \/ /\ wr.stage = "move"
                    /\ wr.path = p
                    /\ files'[p] = wr.toks
                    /\ Load(files'[p]).ok
                 \/ /\ wr.stage = "none"
                    /\ running = 0
                    /\ faults' = faults + 1 ]_vars

\* A crash has interrupted a write: a partly written temporary file is left,
\* and the entity files that exist are whole.
WitnessAtomicWrite ==
    /\ phase = "boot"
    /\ faults > 0
    /\ \E p \in DOMAIN files : p[1] = "tmp" /\ Len(files[p]) > 0 /\ ~Load(files[p]).ok
    /\ \E k \in Keys : HasRecord(k) /\ Len(RecordOf(k)["sections"]) > 0

\* The coroutine in slot s is between its load and the end of its save.
InSpan(pr, k) == pr.k = k /\ pr.pc \in {"loaded", "w_save"}

\* C2: two read-modify-write sequences on one key never interleave, and a
\* handler that saves does so on the record that is on disk at that moment,
\* so that no earlier update is lost.
PerKeySerialization ==
    [][ /\ \A k \in Keys : Cardinality({s \in Slots : InSpan(procs'[s], k)}) <= 1
        /\ \A s \in Slots :
              (procs[s].pc = "loaded" /\ procs'[s].pc = "w_save")
              => /\ HasRecord(procs[s].k)
                 /\ RecordOf(procs[s].k) = procs[s].ud ]_vars

\* Two adds on one key have both been persisted, in the order they were made.
WitnessSecondUpdate ==
    \E k \in Keys :
        /\ HasRecord(k)
        /\ Len(RecordOf(k)["sections"]) = 2
        /\ RecordOf(k)["sections"][1]["text"] = "m1"
        /\ RecordOf(k)["sections"][2]["text"] = "m2"

\* C3: no Section of a record is in sections and in trash at once.  Every
\* message text differs from the others, so the text tells which Section it is.
NoSectionInBoth ==
    \A k \in Keys :
        HasRecord(k) =>
            LET d == RecordOf(k)
            IN  \A i \in DOMAIN d["sections"], j \in DOMAIN d["trash"] :
                    d["sections"][i]["text"] # d["trash"][j]["text"]

\* A record with a Section in sections and another one in trash.
WitnessSectionsAndTrash ==
    \E k \in Keys :
        /\ HasRecord(k)
        /\ Len(RecordOf(k)["sections"]) > 0
        /\ Len(RecordOf(k)["trash"]) > 0

\* C4: every Section of sections in a record load_user_data returns has
\* updated_at, and every Section of its trash has deleted_at.
LoadedTimestamps ==
    \A s \in Slots :
        procs[s].pc = "loaded" =>
            LET d == procs[s].ud
            IN  /\ \A i \in DOMAIN d["sections"] : Has(d["sections"][i], "updated_at")
                /\ \A j \in DOMAIN DictGet(d, "trash", <<>>) :
                       Has(d["trash"][j], "deleted_at")

\* The file the coroutine pr found when its load_user_data began held a
\* record of a version above the current one.
SawFuture(pr) ==
    /\ Load(pr.seen).ok
    /\ Load(pr.seen).shape = "dict"
    /\ Has(Load(pr.seen).v, "schema_version")
    /\ Load(pr.seen).v["schema_version"] > SCHEMA_VERSION

\* C5: every record load_user_data returns has schema_version equal to
\* SCHEMA_VERSION, whatever version the file carried before the call.
LoadedCurrentVersion ==
    \A s \in Slots :
        procs[s].pc = "loaded" =>
            /\ Has(procs[s].ud, "schema_version")
            /\ procs[s].ud["schema_version"] = SCHEMA_VERSION

\* C5, as the code has it: the record load_user_data returns has schema_version
\* equal to SCHEMA_VERSION where the file was absent, unparseable, or carried
\* no version or one not above SCHEMA_VERSION; where the file carried a higher
\* version, the record returned carries that higher version.
LoadedVersionOrHigher ==
    \A s \in Slots :
        procs[s].pc = "loaded" =>
            /\ Has(procs[s].ud, "schema_version")
            /\ procs[s].ud["schema_version"] =
                   IF SawFuture(procs[s])
                   THEN Load(procs[s].seen).v["schema_version"]
                   ELSE SCHEMA_VERSION

\* A load has returned a record of the higher version its file carried.
WitnessLoadedVersions ==
    \E s \in Slots :
        /\ procs[s].pc = "loaded"
        /\ procs[s].ud["schema_version"] > SCHEMA_VERSION
        /\ Load(procs[s].seen).v["schema_version"] = procs[s].ud["schema_version"]

\* This step is the start of load_user_data for key k in slot s.
EnsureStep(s, k) ==
    /\ procs[s].pc = "idle"
    /\ procs'[s].pc # "idle"
    /\ procs'[s].k = k
    /\ procs'[s].via # "none"

\* C6: ensure_user_data on a file whose record has a schema_version above
\* the current one writes nothing: the directory is the same before and
\* after, no write is begun, and the record returned is the one of the file,
\* its schema_version included.
FuturePassThrough ==
    [][ \A s \in Slots, k \in Keys :
            ( /\ EnsureStep(s, k)
              /\ HasRecord(k)
              /\ Has(RecordOf(k), "schema_version")
              /\ RecordOf(k)["schema_version"] > SCHEMA_VERSION )
            => /\ files' = files
               /\ wr' = wr
               /\ procs'[s].pc = "loaded"
               /\ procs'[s].ud = RecordOf(k) ]_vars

\* A record of version 3 has been loaded, and its file is what it was.
WitnessFuturePassThrough ==
    \E s \in Slots :
        /\ procs[s].pc = "loaded"
        /\ procs[s].via = "asis"
        /\ SawFuture(procs[s])
        /\ procs[s].ud["schema_version"] = 3
        /\ files[user_data_path(procs[s].k)] = procs[s].seen

\* C7: the record a migration of a v1 file (schema_version absent or 1)
\* yields has schema_version 2, a trash, a settings with a theme, and
\* updated_at and favorite on every Section of sections.
MigratedV1Complete ==
    \A s \in Slots :
        (procs[s].pc = "loaded" /\ procs[s].via = "migrated") =>
            LET d == procs[s].ud
            IN  /\ Has(d, "schema_version") /\ d["schema_version"] = 2
                /\ Has(d, "trash")
                /\ Has(d, "settings") /\ Has(d["settings"], "theme")
                /\ \A i \in DOMAIN DictGet(d, "sections", <<>>) :
                       /\ Has(d["sections"][i], "updated_at")
                       /\ Has(d["sections"][i], "favorite")

\* C8: migrating the result of a migration changes nothing and writes
\* nothing, for the record of every entity file, whatever its version; the
\* second migration reads a later clock than the first.
MigrationIdempotent ==
    /\ \A k \in Keys :
          HasRecord(k) =>
              LET m1 == Migrate(RecordOf(k), now + 1)
                  m2 == Migrate(m1.data, now + 2)
              IN  /\ ~m2.changed
                  /\ m2.data = m1.data
    /\ \A s \in Slots :
          (procs[s].pc \in {"load", "loaded"} /\ procs[s].via = "migrated")
          => /\ HasRecord(procs[s].k)
             /\ ~Migrate(RecordOf(procs[s].k), now + 1).changed

\* A migration has rewritten a file that had a Section without updated_at.
WitnessMigrated ==
    \E s \in Slots :
        /\ procs[s].pc = "loaded"
        /\ procs[s].via = "migrated"
        /\ Load(procs[s].seen).v # procs[s].ud
        /\ \E i \in DOMAIN procs[s].ud["sections"] :
              ~Has(Load(procs[s].seen).v["sections"][i], "updated_at")

\* C9: after ensure_user_data has found an unparseable file, the file's
\* bytes are at <name>.corrupt.bak, the file holds the default record, and
\* load_user_data returns the default record; the quarantine itself never
\* raises out of load_user_data.
QuarantineKeepsBytes ==
    \A s \in Slots :
        /\ (procs[s].pc = "loaded" /\ procs[s].via = "quarantine")
           => LET path == user_data_path(procs[s].k)
              IN  /\ ~Load(procs[s].seen).ok
                  /\ Present(files, BakPath(path))
                  /\ files[BakPath(path)] = procs[s].seen
                  /\ files[path] = Dump(default_user_structure)
                  /\ procs[s].ud = default_user_structure
                  /\ procs[s].ud["schema_version"] = SCHEMA_VERSION
        /\ procs[s].pc = "raised" => procs[s].via # "quarantine"

\* A load has returned after it moved a damaged file aside.
WitnessQuarantine ==
    \E s \in Slots :
        /\ procs[s].pc = "loaded"
        /\ procs[s].via = "quarantine"
        /\ Len(procs[s].seen) > 0

\* C10: load_user_data on a file that parses to something that is no
\* mapping does not fail.
NonMappingDoesNotFail ==
    \A s \in Slots :
        procs[s].pc = "raised" =>
            ~(Load(procs[s].seen).ok /\ Load(procs[s].seen).shape # "dict")

\* The uploaded document pl does not decode, or decodes to something that
\* has no sections field.
Rejected(pl) == ~Load(pl).ok \/ ~Has(Load(pl).v, "sections")

\* This step is restore_receive_file taking up an upload in slot s.
RestoreStep(s) == procs[s].pc = "idle" /\ procs'[s].op = "restorefile"

\* C11: restore_receive_file on a payload that does not decode or lacks
\* sections begins no write and leaves every file as it is, also while the
\* failure is reported; the user is told that the restore failed.
RestoreAllOrNothing ==
    [][ \A s \in Slots :
          /\ (RestoreStep(s) /\ Rejected(Payloads[procs'[s].idx]))
             => /\ files' = files
                /\ wr' = wr
                /\ procs'[s].pc = "send"
                /\ procs'[s].val = "Restore failed"
          /\ (procs[s].pc = "send" /\ procs[s].op = "restorefile")
             => files' = files /\ wr' = wr ]_vars

\* A payload without sections has been refused while the user has a record
\* with a Section on disk.
WitnessRestoreRefused ==
    \E s \in Slots :
        /\ procs[s].pc = "send"
        /\ procs[s].op = "restorefile"
        /\ Payloads[procs[s].idx] = PayloadNoSections
        /\ HasRecord(procs[s].k)
        /\ Len(RecordOf(procs[s].k)["sections"]) > 0

\* What a restore of the decodable payload pl is to persist: the fields of
\* the payload as given, and the defaults for the three that may be missing.
RestoredRecord(pl) ==
    LET d == Load(pl).v
    IN  [x \in (DOMAIN d) \cup {"schema_version", "trash", "settings"} |->
            IF x \in DOMAIN d THEN d[x] ELSE default_user_structure[x]]

\* C12: restore_receive_file accepts every payload that decodes and has
\* sections, and when its write completes the entity file holds exactly the
\* payload's fields with the missing ones among schema_version, trash and
\* settings filled by their defaults, whatever the file held before.
RestoreReplacesWholesale ==
    [][ \A s \in Slots :
          /\ (RestoreStep(s) /\ ~Rejected(Payloads[procs'[s].idx]))
             => /\ procs'[s].pc = "w_save"
                /\ procs'[s].ud = RestoredRecord(Payloads[procs'[s].idx])
          /\ ( /\ procs[s].op = "restorefile"
               /\ procs[s].pc = "w_save"
               /\ wr.stage = "move"
               /\ wr'.stage = "none"
               /\ faults' = faults )
             => LET path == user_data_path(procs[s].k)
                IN  /\ files'[path] = Dump(RestoredRecord(Payloads[procs[s].idx]))
                    /\ Load(files'[path]).v = RestoredRecord(Payloads[procs[s].idx]) ]_vars

\* A payload at version 1 with an empty settings has replaced the record
\* the user had: its version and settings are kept, its trash is filled in.
WitnessRestored ==
    \E k \in Keys :
        /\ conv[k] = "END"
        /\ Present(files, user_data_path(k))
        /\ files[user_data_path(k)] = Dump(RestoredRecord(PayloadV1Settings))
        /\ RecordOf(k)["schema_version"] = 1
        /\ RecordOf(k)["settings"] = EmptyDict
        /\ RecordOf(k)["trash"] = <<>>

\* The indices a request can carry that are outside the list q.
OutOfRange(q) == {i \in -2..(Len(q) + 1) : ~InRange(i, q)}

\* C13: on the record load_user_data has just returned, every index-bearing
\* operation with an index outside 0..len-1 (negative ones included) leaves
\* the record as it is and saves nothing; the index the edit flow keeps is
\* never negative, so that the update never wraps around; and a handler that
\* ends without saving leaves every file as it is.
IndexChecked ==
    /\ [](\A s \in Slots :
            procs[s].pc = "loaded" =>
                LET ud == procs[s].ud
                    c == ctx[procs[s].k]
                IN  /\ \A i \in OutOfRange(ud["sections"]) :
                          /\ ToggleFav(ud, i, now + 1) = Keep(ud)
                          /\ SoftDelete(ud, i, now + 1) = Keep(ud)
                    /\ \A i \in OutOfRange(ud["trash"]) :
                          /\ RestoreFromTrash(ud, i, now + 1) = Keep(ud)
                          /\ PurgeTrash(ud, i) = Keep(ud)
                    /\ (Has(c, "edit_index") /\ Has(c, "which_edit"))
                       => /\ c["edit_index"] >= 0
                          /\ ~InRange(c["edit_index"], ud["sections"])
                             => UpdateSection(ud, c, "x", now + 1) = Keep(ud))
    /\ [][ \A s \in Slots :
             (procs[s].pc = "loaded" /\ procs'[s].pc = "idle")
             => files' = files /\ wr' = wr ]_vars

\* The message with the new value has arrived, and the index the edit flow
\* kept is past the end of the freshly loaded sections.
WitnessStaleIndex ==
    \E s \in Slots :
        /\ procs[s].pc = "loaded"
        /\ DictGet(ctx[procs[s].k], "awaiting_edit", FALSE)
        /\ ctx[procs[s].k]["edit_index"] >= Len(procs[s].ud["sections"])
        /\ Len(procs[s].ud["trash"]) > 0

\* C14: the Section an update modifies is the one the user selected with
\* editopen_: at the step where edit_apply_message changes the record, the
\* Section at the stored index of the freshly loaded sections is the Section
\* that was at that index when the index was stored.
EditHitsSelected ==
    [][ \A s \in Slots :
          (procs[s].pc = "loaded" /\ procs'[s].pc = "w_save" /\ procs'[s].op = "edit")
          => LET c == ctx[procs[s].k]
                 q == procs[s].ud["sections"]
             IN  q[Position(c["edit_index"], q)]["text"] = c["picked"] ]_vars

\* A call of ensure_user_data on the directory f at clock t would write
\* nothing for key k: the file exists, decodes to a dict, and is not migrated.
EnsureWritesNothing(f, k, t) ==
    /\ Present(f, user_data_path(k))
    /\ Load(f[user_data_path(k)]).ok
    /\ Load(f[user_data_path(k)]).shape = "dict"
    /\ ~Migrate(Load(f[user_data_path(k)]).v, t).changed

\* C15: once ensure_user_data has returned for a key, a second call would
\* write nothing; a file it created holds the default record at the current
\* version, a file it found is rewritten only where the migration changed
\* something; and a call that finds nothing to do leaves the directory as it is.
EnsureIdempotent ==
    /\ [](\A s \in Slots :
            procs[s].pc \in {"load", "loaded"} =>
                LET path == user_data_path(procs[s].k)
                IN  /\ EnsureWritesNothing(files, procs[s].k, now + 1)
                    /\ procs[s].via = "created"
                       => /\ files[path] = Dump(default_user_structure)
                          /\ RecordOf(procs[s].k)["schema_version"] = SCHEMA_VERSION
                    /\ procs[s].via = "asis" => files[path] = procs[s].seen
                    /\ procs[s].via = "migrated"
                       => /\ Migrate(Load(procs[s].seen).v, now).changed
                          /\ files[path] # procs[s].seen)
    /\ [][ \A s \in Slots, k \in Keys :
             (EnsureStep(s, k) /\ EnsureWritesNothing(files, k, now + 1))
             => files' = files /\ wr' = wr ]_vars

\* A second call on a file that a first call created has written nothing.
WitnessEnsureTwice ==
    \E s \in Slots :
        /\ procs[s].pc = "loaded"
        /\ procs[s].via = "asis"
        /\ procs[s].seen = Dump(default_user_structure)
        /\ files[user_data_path(procs[s].k)] = procs[s].seen

\* This step is the rename that ends the save_user_data of slot s.
SaveCompletes(s) ==
    /\ procs[s].pc = "w_save"
    /\ wr.stage = "move"
    /\ wr.s = s
    /\ wr'.stage = "none"
    /\ procs'[s].pc = "idle"

\* C16: when save_user_data(key, r) completes, the file of the key is the
\* encoding of r and decodes to r, with nothing of the record it replaced;
\* a record at the current version is not changed by the migration of the
\* next load; the files of the other keys are as they were; and
\* load_user_data on a file it need not rewrite returns what the file decodes to.
PutRoundTrip ==
    /\ [](\A s \in Slots :
            (procs[s].pc = "loaded" /\ procs[s].via = "asis")
            => procs[s].ud = RecordOf(procs[s].k))
    /\ [][ \A s \in Slots :
             SaveCompletes(s) =>
                 LET path == user_data_path(procs[s].k)
                     r == procs[s].ud
                 IN  /\ files'[path] = Dump(r)
                     /\ Load(files'[path]) = [ok |-> TRUE, shape |-> "dict", v |-> r]
                     /\ r["schema_version"] = SCHEMA_VERSION
                        => ~Migrate(Load(files'[path]).v, now + 1).changed
                     /\ \A p \in EntityPaths \ {path} :
                           /\ Present(files', p) <=> Present(files, p)
                           /\ Present(files, p) => files'[p] = files[p] ]_vars

\* A record with a favorite Section has been saved and read back, beside the
\* file of the other key.
WitnessPutAndGet ==
    \E s \in Slots :
        /\ procs[s].pc = "loaded"
        /\ procs[s].via = "asis"
        /\ Len(procs[s].ud["sections"]) > 0
        /\ procs[s].ud["sections"][1]["favorite"]
        /\ \A k \in Keys : HasRecord(k)


\* The step begins callback_router on admin_delete_<k>, sent by the owner.
OwnerDeletes(k) ==
    \E s \in Slots :
        /\ procs[s].pc = "idle"
        /\ procs'[s].op = "admin_delete"
        /\ procs'[s].k = OWNER_ID
        /\ procs'[s].idx = k

\* The step is the move of corrupt-file recovery: the file of k, which
\* json.load rejects, becomes its .corrupt.bak sidecar.
MovedAside(k) ==
    \E s \in Slots :
        /\ procs[s].pc # "quarantined"
        /\ procs'[s].pc = "quarantined"
        /\ procs'[s].k = k
        /\ ~Load(files[user_data_path(k)]).ok
        /\ Present(files', BakPath(user_data_path(k)))
        /\ files'[BakPath(user_data_path(k))] = files[user_data_path(k)]

\* The coroutine in slot s ends in this step.
OperationEnds(s) == procs[s].pc # "idle" /\ procs'[s].pc = "idle"

Undecodable(f) ==
    {p \in DOMAIN f : IF p = USERS_FILE THEN ~LoadUsers(f[p]).ok
                                        ELSE InDataDir(p) /\ ~Load(f[p]).ok}

Quiet == procs = [s \in Slots |-> Idle] /\ wr = NoWrite /\ running = 0

\* C18: the start of the process decodes the registry and every file under
\* the data directory; it is aborted exactly where one of them does not
\* decode, and then no handler ever runs and nothing changes any more; until
\* the check has passed no request is served either.
StartupValidates ==
    /\ [](phase \in {"boot", "aborted"} => Quiet)
    /\ [][/\ phase = "boot" /\ phase' # "boot"
             => (phase' = "aborted") = (Undecodable(files') # {})
          /\ phase = "aborted" => UNCHANGED vars]_vars

\* The start was aborted over a registry that does not decode, beside data
\* files that do.
WitnessStartupAborted ==
    /\ phase = "aborted"
    /\ ~LoadUsers(files[USERS_FILE]).ok
    /\ \A p \in DOMAIN files : InDataDir(p) => Load(files[p]).ok

\* C19: the answer to the owner's tap on the Backup All button carries an
\* archive that holds every entity file and the registry.
BackupAllSendsArchive ==
    \A s \in Slots :
        (/\ procs[s].pc = "send"
         /\ procs[s].op = "admin_backup_all"
         /\ procs[s].k = OWNER_ID)
        => /\ USERS_FILE \in DOMAIN procs[s].doc
           /\ \A p \in EntityPaths :
                 Present(files, p) =>
                    p \in DOMAIN procs[s].doc /\ procs[s].doc[p] = files[p]

\* C20: a .corrupt.bak sidecar that exists is neither removed nor given
\* other content by any later step.
SidecarKept ==
    [][\A k \in Keys :
          LET bak == BakPath(user_data_path(k))
          IN  Present(files, bak) => Present(files', bak) /\ files'[bak] = files[bak]]_vars

\* The handler op of the coroutine in slot s ends its read-modify-write in
\* this step with a record to save.
Saves(s, op) ==
    /\ procs[s].pc = "loaded"
    /\ procs'[s].pc = "w_save"
    /\ procs'[s].op = op

\* The keys of the record a other than sections and trash are those of b,
\* with the same values.
SameOtherKeys(a, b) ==
    /\ DOMAIN a = DOMAIN b
    /\ \A key \in DOMAIN a \ {"sections", "trash"} : a[key] = b[key]

\* C21: add_text saves the loaded record with exactly one Section more, at
\* the end of sections, with the title captured ('Untitled' if none was),
\* the image captured (None if it was skipped or none was), the text of the
\* message, favorite false and updated_at the time of the request; the
\* Sections there were, the trash and the settings are as they were.
AddAppendsOne ==
    [][\A s \in Slots :
         Saves(s, "add") =>
            LET a == procs[s].ud
                b == procs'[s].ud
                c == ctx[procs[s].k]
                n == Len(a["sections"])
            IN  /\ now' = now + 1
                /\ Len(b["sections"]) = n + 1
                /\ SubSeq(b["sections"], 1, n) = a["sections"]
                /\ b["sections"][n + 1] =
                      [title |-> IF Has(c, "new_title") THEN c["new_title"] ELSE "Untitled",
                       image |-> IF Has(c, "new_image") THEN c["new_image"] ELSE None,
                       text |-> procs'[s].val,
                       favorite |-> FALSE,
                       updated_at |-> Iso(now')]
                /\ b["trash"] = a["trash"]
                /\ SameOtherKeys(a, b)]_vars

\* A second Section is being added, without an image, behind one that has
\* an image.
WitnessSecondAdded ==
    \E s \in Slots :
        /\ procs[s].op = "add"
        /\ procs[s].pc = "w_save"
        /\ Len(procs[s].ud["sections"]) = 2
        /\ procs[s].ud["sections"][1]["image"] = "u"
        /\ procs[s].ud["sections"][2]["image"] = None

\* The list b is the list a without its element at position idx (from 0).
Without(a, idx, b) ==
    /\ Len(b) = Len(a) - 1
    /\ \A i \in DOMAIN b : b[i] = IF i <= idx THEN a[i] ELSE a[i + 1]

\* The Section y is the Section x but for the value v under key.
SameBut(x, key, v, y) ==
    /\ DOMAIN y = DOMAIN x \cup {key}
    /\ y[key] = v
    /\ \A f \in DOMAIN x \ {key} : y[f] = x[f]

\* C22: delete_<idx> with 0 <= idx < len(sections) saves the loaded record
\* without sections[idx], the other Sections in their order and with their
\* content, and with that Section, its deleted_at set to the time of the
\* request, behind the trash entries there were, which are as they were.
SoftDeleteMovesOne ==
    [][\A s \in Slots :
         Saves(s, "delete") =>
            LET a == procs[s].ud
                b == procs'[s].ud
                idx == procs'[s].idx
                m == Len(a["trash"])
            IN  /\ InRange(idx, a["sections"])
                /\ now' = now + 1
                /\ Without(a["sections"], idx, b["sections"])
                /\ Len(b["trash"]) = m + 1
                /\ SubSeq(b["trash"], 1, m) = a["trash"]
                /\ SameBut(a["sections"][idx + 1], "deleted_at", Iso(now'),
                           b["trash"][m + 1])
                /\ SameOtherKeys(a, b)]_vars

\* The first of two Sections was deleted, and now the one that stayed is
\* being deleted, behind it in the trash.
WitnessDeletedBesideTrash ==
    \E s \in Slots :
        /\ procs[s].op = "delete"
        /\ procs[s].pc = "w_save"
        /\ procs[s].ud["sections"] = <<>>
        /\ Len(procs[s].ud["trash"]) = 2
        /\ procs[s].ud["trash"][1]["text"] = "a"
        /\ procs[s].ud["trash"][2]["text"] = "b"

\* C23: restore_<idx> with 0 <= idx < len(trash) saves the loaded record
\* without trash[idx], the other trash entries as they were, and with that
\* item behind the Sections there were, its updated_at set to the time of
\* the request and every other field as it was; where it was the only item
\* of the trash, the trash saved is empty.
RestoreMovesOne ==
    [][\A s \in Slots :
         Saves(s, "restore") =>
            LET a == procs[s].ud
                b == procs'[s].ud
                idx == procs'[s].idx
                n == Len(a["sections"])
            IN  /\ InRange(idx, a["trash"])
                /\ now' = now + 1
                /\ Without(a["trash"], idx, b["trash"])
                /\ Len(a["trash"]) = 1 => b["trash"] = <<>>
                /\ Len(b["sections"]) = n + 1
                /\ SubSeq(b["sections"], 1, n) = a["sections"]
                /\ SameBut(a["trash"][idx + 1], "updated_at", Iso(now'),
                           b["sections"][n + 1])
                /\ SameOtherKeys(a, b)]_vars

\* The only item of the trash is being restored: it is a Section again, with
\* a later updated_at than its deleted_at, and the trash is empty.
WitnessRestoredFromTrash ==
    \E s \in Slots :
        /\ procs[s].op = "restore"
        /\ procs[s].pc = "w_save"
        /\ procs[s].ud["trash"] = <<>>
        /\ Len(procs[s].ud["sections"]) = 1
        /\ procs[s].ud["sections"][1]["deleted_at"] = Iso(now - 1)
        /\ procs[s].ud["sections"][1]["updated_at"] = Iso(now)

\* section.get("favorite", False)
IsFavorite(x) == IF Has(x, "favorite") THEN x["favorite"] ELSE FALSE

\* C24: togglefav_<idx> with 0 <= idx < len(sections) saves the loaded record
\* with the favorite flag of sections[idx] flipped and its updated_at set to
\* the time of the request; its other fields, the other Sections, the trash
\* and the rest of the record are as they were; and toggling the Section of a
\* loaded record twice gives the favorite value it had.
ToggleFlipsOne ==
    /\ [](\A s \in Slots :
            procs[s].pc = "loaded" =>
               \A i \in 0..(Len(procs[s].ud["sections"]) - 1) :
                  LET once == ToggleFav(procs[s].ud, i, now + 1).ud
                      twice == ToggleFav(once, i, now + 2).ud
                  IN  IsFavorite(twice["sections"][i + 1])
                         = IsFavorite(procs[s].ud["sections"][i + 1]))
    /\ [][\A s \in Slots :
            Saves(s, "togglefav") =>
               LET a == procs[s].ud
                   b == procs'[s].ud
                   idx == procs'[s].idx
                   x == a["sections"][idx + 1]
                   y == b["sections"][idx + 1]
               IN  /\ InRange(idx, a["sections"])
                   /\ now' = now + 1
                   /\ Len(b["sections"]) = Len(a["sections"])
                   /\ \A i \in DOMAIN a["sections"] \ {idx + 1} :
                         b["sections"][i] = a["sections"][i]
                   /\ y["favorite"] = ~IsFavorite(x)
                   /\ y["updated_at"] = Iso(now')
                   /\ DOMAIN y = DOMAIN x \cup {"favorite", "updated_at"}
                   /\ \A f \in DOMAIN x \ {"favorite", "updated_at"} : y[f] = x[f]
                   /\ b["trash"] = a["trash"]
                   /\ SameOtherKeys(a, b)]_vars

\* The one Section of a record, added and then made a favorite, is being
\* toggled back.
WitnessToggledBack ==
    \E s \in Slots :
        /\ procs[s].op = "togglefav"
        /\ procs[s].pc = "w_save"
        /\ now = MaxOps
        /\ procs[s].ud["trash"] = <<>>
        /\ Len(procs[s].ud["sections"]) = 1
        /\ procs[s].ud["sections"][1]["text"] = "m1"
        /\ ~procs[s].ud["sections"][1]["favorite"]
        /\ procs[s].ud["sections"][1]["updated_at"] = Iso(now)

\* What a Section says: its title, image, text and favorite flag.
Content(x) ==
    <<DictGet(x, "title", None), DictGet(x, "image", None),
      DictGet(x, "text", None), IsFavorite(x)>>

\* How many Sections of the record d, in sections or in trash, say c.
Copies(d, c) ==
    Cardinality({i \in DOMAIN d["sections"] : Content(d["sections"][i]) = c})
    + Cardinality({i \in DOMAIN d["trash"] : Content(d["trash"][i]) = c})

Contents(d) ==
    {Content(d["sections"][i]) : i \in DOMAIN d["sections"]}
    \cup {Content(d["trash"][i]) : i \in DOMAIN d["trash"]}

Total(d) == Len(d["sections"]) + Len(d["trash"])

\* C30: of the record a handler loaded and the record it saves: delete_ and
\* restore_ keep len(sections) + len(trash) and keep every Section with its
\* title, image, text and favorite; add_text makes the total one more;
\* purge_ makes it one less and leaves sections as they were; the edit and
\* togglefav_ leave both lengths as they were.
SectionsConserved ==
    [][\A s \in Slots :
         LET a == procs[s].ud
             b == procs'[s].ud
         IN  /\ (Saves(s, "delete") \/ Saves(s, "restore"))
                => /\ Total(b) = Total(a)
                   /\ \A c \in Contents(a) \cup Contents(b) :
                         Copies(b, c) = Copies(a, c)
             /\ Saves(s, "delete")
                => Len(b["sections"]) = Len(a["sections"]) - 1
             /\ Saves(s, "restore")
                => Len(b["sections"]) = Len(a["sections"]) + 1
             /\ Saves(s, "add")
                => Total(b) = Total(a) + 1 /\ b["trash"] = a["trash"]
             /\ Saves(s, "purge")
                => Total(b) = Total(a) - 1 /\ b["sections"] = a["sections"]
             /\ (Saves(s, "edit") \/ Saves(s, "togglefav"))
                => /\ Len(b["sections"]) = Len(a["sections"])
                   /\ Len(b["trash"]) = Len(a["trash"])]_vars

\* Of two Sections added, the first was deleted and is being purged: one
\* Section is left, and the trash is empty.
WitnessPurged ==
    \E s \in Slots :
        /\ procs[s].op = "purge"
        /\ procs[s].pc = "w_save"
        /\ procs[s].ud["trash"] = <<>>
        /\ Len(procs[s].ud["sections"]) = 1
        /\ procs[s].ud["sections"][1]["text"] = "m2"

\* The step is the start of the process: module body and main.
Starts == phase = "boot" /\ phase' # "boot"

\* C25 as the specification states it: the archive of a start holds the
\* registry and the entity files as they were when the process started,
\* none of them written before.
ArchiveBeforeAnyWrite ==
    [][Starts =>
          LET arch == files'[PrestartPath(files)]
          IN  \A p \in DOMAIN arch :
                 (p = USERS_FILE \/ p \in EntityPaths)
                 => Present(files, p) /\ files[p] = arch[p]]_vars

\* C25, amended: no handler runs before the archive is written; the start
\* changes no file that exists, and creates nothing but the archive and,
\* where there is no registry, the empty registry, which is written before
\* the archive and is in it; the archive holds the registry and every file
\* under the data directory as they are after that.
ArchiveBeforeHandlers ==
    /\ [](phase = "boot" => Quiet)
    /\ [][Starts =>
            LET name == PrestartPath(files)
            IN  /\ ~Present(files, name)
                /\ Present(files', name)
                /\ \A p \in DOMAIN files : Present(files', p) /\ files'[p] = files[p]
                /\ DOMAIN files' \ DOMAIN files \subseteq {name, USERS_FILE}
                /\ ~Present(files, USERS_FILE)
                   => files'[USERS_FILE] = <<TokP("{"), TokP("}")>>
                /\ DOMAIN files'[name] =
                      {p \in DOMAIN files' : p = USERS_FILE \/ InDataDir(p)}
                /\ \A p \in DOMAIN files'[name] : files'[name][p] = files'[p]]_vars

\* The first start has ended: there was no registry, and the archive holds
\* the empty one the module body wrote.
WitnessFirstArchive ==
    /\ phase = "serving"
    /\ Present(files, <<"prestart", 1>>)
    /\ DOMAIN files[<<"prestart", 1>>] = {USERS_FILE}
    /\ files[<<"prestart", 1>>][USERS_FILE] = <<TokP("{"), TokP("}")>>


\* C26: a start at which the registry and every <id>.json entity file decode
\* succeeds, whatever else the store has left in the data directory.
ArtifactsNeverFailStart ==
    [][(/\ Starts
        /\ is_valid_json_file(files', USERS_FILE)
        /\ \A p \in EntityPaths :
              Present(files, p) => is_valid_json_file(files, p))
          => phase' = "serving"]_vars


\* C27: every entry of the registry has a password and a logged_in flag.
EntriesComplete ==
    load_users.ok =>
        \A uid \in DOMAIN load_users.v :
            Has(load_users.v[uid], "password") /\ Has(load_users.v[uid], "logged_in")


\* C28: a handler saves a changed record only for a user who is logged in
\* when it does so.
ChangesOnlyWhenLoggedIn ==
    [][\A s \in Slots :
          procs[s].pc = "loaded" /\ procs'[s].pc = "w_save"
          => is_logged_in(procs'[s].k)]_vars


\* The registry a step leaves to be stored: what save_users was called with,
\* or the registry as it is where the step does not call it.
UsersAfter ==
    IF wr'.stage # "none" /\ wr'.path = USERS_FILE /\ wr.stage = "none"
    THEN LoadUsers(wr'.toks).v
    ELSE load_users.v

LoggedIn(users, uid) == Has(users, uid) /\ DictGet(users[uid], "logged_in", FALSE)

\* What text_message_handler does to the registry on the message text of
\* user k, where pw is the text the password is compared with.
TextEffect(k, pw) ==
    LET old == load_users.v
        new == UsersAfter
        uid == ToString(k)
    IN  /\ \A u \in UserIds \ {uid} :
              /\ Has(new, u) <=> Has(old, u)
              /\ Has(old, u) => new[u] = old[u]
        /\ Has(old, uid) =>
              /\ Has(new, uid)
              /\ DictGet(new[uid], "password", None) = DictGet(old[uid], "password", None)
              /\ ~LoggedIn(old, uid) /\ LoggedIn(new, uid)
                 => Has(old[uid], "password") /\ old[uid]["password"] = pw
              /\ DictGet(old[uid], "password", None) # pw
                 => new = old /\ wr' = wr
        /\ ~Has(old, uid) =>
              /\ Has(new, uid)
              /\ DictGet(new[uid], "password", None) = pw
              /\ LoggedIn(new, uid)

\* C29 as the specification states it: the login succeeds only when the
\* message text equals the stored password, a wrong text changes nothing, a
\* registration stores the message text, and no other entry changes.
TextEqualsPassword ==
    [][\A k \in Keys, text \in Texts :
          TextMessage(k, text) /\ load_users.ok => TextEffect(k, text)]_vars

\* C29, amended: the same with the message text taken without the blanks
\* around it, which is what the handler compares and stores.
StrippedTextEqualsPassword ==
    [][\A k \in Keys, text \in Texts :
          TextMessage(k, text) /\ load_users.ok => TextEffect(k, Strip(text))]_vars

\* A login has gone through: the user was logged out, typed the password,
\* and the registry on disk has the flag set while the reply is on its way.
WitnessLoggedInAgain ==
    \E s \in Slots :
        /\ procs[s].op = "login"
        /\ procs[s].pc = "send"
        /\ procs[s].val = "Logged in"
        /\ is_logged_in(procs[s].k)


\* The coroutine in slot s begins as send_user_backup with a document.
BackupTaken(s) ==
    /\ procs[s].pc = "idle"
    /\ procs'[s].op = "backup"
    /\ Has(procs'[s].doc, "user_backup")

\* The coroutine in slot s begins as the restore of the received backup.
RestoresBackup(s) ==
    /\ procs[s].pc = "idle"
    /\ procs'[s].op = "restorefile"
    /\ procs'[s].idx = 0

\* C31: the document of the per-user backup holds the bytes of the record
\* as persisted when the backup is taken, and the restore of that document,
\* whatever changed the record in between, succeeds and writes those bytes.
BackupRoundTrips ==
    /\ [][\A s \in Slots :
             BackupTaken(s)
             => procs'[s].doc["user_backup"] = files[user_data_path(procs'[s].k)]]_vars
    /\ [][\A s \in Slots :
             RestoresBackup(s)
             => /\ procs'[s].pc = "w_save"
                /\ wr'.toks = ctx[procs'[s].k]["received"]]_vars
=============================================================================
